---- MODULE Spec2Model ----
(***************************************************************************)
(* StateLedger: the hash-chained record store (internal/ledger/ledger.go)  *)
(* driven by concurrent callers sharing one *Ledger handle, as the HTTP    *)
(* handlers of the microservice do (cmd/stress-test/main.go, recordEvent). *)
(*                                                                         *)
(* A Go string is a sequence of one-character tokens.  A SHA-256 hex       *)
(* digest is a single token "h(...)" that spells out the hashed input:     *)
(* the digest is modelled as collision free, and, like a hex string, it    *)
(* never contains the pipe token.                                          *)
(***************************************************************************)
EXTENDS Integers, Sequences, FiniteSets, TLC

\* ---------------------------------------------------------------- bounds
MaxRecords == 3      \* rows the table may hold
MaxBatch == 2        \* inputs of one AppendBatch call
MaxTamper == 1       \* alterations made outside the store
MaxTamperRecords == 2   \* rows the table may hold when an outside writer is present

\* ---------------------------------------------------------------- inputs
Callers == {"c1", "c2"}

Pipe == "|"
Space == " "
EmptyString == <<>>

\* RecordInput (ledger.go:43-48)
In(ts, rtype, source, payload) ==
    [Timestamp |-> ts, Type |-> rtype, Source |-> source, Payload |-> payload]

\* inputs that pass Append's checks; the second and third differ in source and
\* payload only by the place of a pipe, and timestamps need not grow with the id
ValidInputs ==
    { In(2, <<"a">>, <<"a">>, <<"a">>),
      In(1, <<"a">>, <<"a", Pipe, "a">>, <<"a">>),
      In(1, <<"a">>, <<"a">>, <<"a", Pipe, "a">>) }

\* inputs with an empty or blank Type or an empty or blank Payload
InvalidInputs ==
    { In(1, EmptyString, <<"a">>, <<"a">>),
      In(1, <<Space>>, <<"a">>, <<"a">>),
      In(1, <<"a">>, <<"a">>, EmptyString),
      In(1, <<"a">>, <<"a">>, <<Space, Space>>) }

RecordInput == ValidInputs \cup InvalidInputs

\* the inputs the batches are drawn from: two valid ones and one with an empty Type
BatchInputs ==
    { In(2, <<"a">>, <<"a">>, <<"a">>),
      In(1, <<"a">>, <<"a">>, <<"a", Pipe, "a">>),
      In(1, EmptyString, <<"a">>, <<"a">>) }

Batches == UNION { [1..n -> BatchInputs] : n \in 1..MaxBatch }

\* ---------------------------------------------------------------- strings
Min(S) == CHOOSE i \in S : \A j \in S : i <= j

Range(f) == {f[k] : k \in DOMAIN f}

RECURSIVE TrimLeft(_)
TrimLeft(s) == IF s # <<>> /\ Head(s) = Space THEN TrimLeft(Tail(s)) ELSE s

RECURSIVE TrimRight(_)
TrimRight(s) ==
    IF s # <<>> /\ s[Len(s)] = Space THEN TrimRight(SubSeq(s, 1, Len(s) - 1)) ELSE s

\* strings.TrimSpace
TrimSpace(s) == TrimRight(TrimLeft(s))

Digit(d) == CASE d = 0 -> "0" [] d = 1 -> "1" [] d = 2 -> "2" [] d = 3 -> "3"
              [] d = 4 -> "4" [] d = 5 -> "5" [] d = 6 -> "6" [] d = 7 -> "7"
              [] d = 8 -> "8" [] d = 9 -> "9"

\* fmt's %d of a non-negative int64
RECURSIVE Decimal(_)
Decimal(n) == IF n < 10 THEN <<Digit(n)>> ELSE Decimal(n \div 10) \o <<Digit(n % 10)>>

\* the text of a token sequence
RECURSIVE Flatten(_)
Flatten(s) == IF s = <<>> THEN "" ELSE Head(s) \o Flatten(Tail(s))

\* hex.EncodeToString(sha256.Sum256(value)): one digest token per distinct input
Sha256Hex(value) == <<"h(" \o Flatten(value) \o ")">>

\* fmt.Sprintf("%s|%d|%s|%s|%s", prevHash, ts, rtype, source, payload)
HashInput(prevHash, ts, rtype, source, payload) ==
    prevHash \o <<Pipe>> \o Decimal(ts) \o <<Pipe>> \o rtype \o <<Pipe>> \o source
             \o <<Pipe>> \o payload

computeHash(prevHash, ts, rtype, source, payload) ==
    Sha256Hex(HashInput(prevHash, ts, rtype, source, payload))

\* ---------------------------------------------------------------- state
VARIABLES
    table,      \* the rows of ledger_records
    seq,        \* sqlite_sequence of ledger_records: the largest id ever committed
    pc,         \* per caller: "idle", "insert" (Append between lastHash and INSERT), "batch"
    input,      \* per caller: the inputs of the call in progress
    prevHash,   \* per caller: the local prevHash
    buf,        \* per caller: the rows of the open transaction of AppendBatch
    ret,        \* per caller: how the last call returned: "none", "ok", "err" (storage),
                \*   or the text of the error of a failed check
    mine,       \* per caller: the ids returned by (inserted by) the current or last call
    asked,      \* per caller: the number of inputs of the current or last call
    rolled,     \* per caller: the number of rows a failed call had written before failing
    tampered,   \* the alterations made outside the store, <<id, field>> in order
    call,       \* per caller: the command line of the current or last CLI command
    file,       \* the blob root: per path of a file that exists, its bytes
    put,        \* per caller: the position of its artifacts.Store call and what it returned
    app         \* the in-memory state of the microservice: users and orders

ledgerVars == <<table, seq, pc, input, prevHash, buf, ret, mine, asked, rolled, tampered, call>>

vars == <<table, seq, pc, input, prevHash, buf, ret, mine, asked, rolled, tampered, call, file,
          put, app>>

Ids(t) == {r.id : r \in t}

MaxId(t) == IF t = {} THEN 0 ELSE CHOOSE i \in Ids(t) : \A j \in Ids(t) : j <= i

Row(t, i) == CHOOSE r \in t : r.id = i

\* the rows in ascending id order (ORDER BY id ASC)
RECURSIVE OrderById(_)
OrderById(t) ==
    IF t = {} THEN <<>>
    ELSE LET last == Row(t, MaxId(t)) IN Append(OrderById(t \ {last}), last)

\* SELECT hash FROM ledger_records ORDER BY id DESC LIMIT 1; sql.ErrNoRows gives ""
lastHash(t) == IF t = {} THEN EmptyString ELSE Row(t, MaxId(t)).hash

\* an id generator that leaves a hole after every id
NextId_Stride(t, s) == (IF MaxId(t) > s THEN MaxId(t) ELSE s) + 2

\* id INTEGER PRIMARY KEY AUTOINCREMENT: one more than the largest id ever used
NextId(t, s) == (IF MaxId(t) > s THEN MaxId(t) ELSE s) + 1

\* an INSERT whose last two arguments are swapped
NewRow_Swapped(id, in, hash, prev) ==
    [id |-> id, ts |-> in.Timestamp, type |-> in.Type, source |-> in.Source,
     payload |-> in.Payload, hash |-> prev, prev_hash |-> hash]

\* the row written by INSERT INTO ledger_records(ts, type, source, payload, hash, prev_hash)
NewRow(id, in, hash, prev) ==
    [id |-> id, ts |-> in.Timestamp, type |-> in.Type, source |-> in.Source,
     payload |-> in.Payload, hash |-> hash, prev_hash |-> prev]

\* a check of the type that forgets the payload
Rejected_TypeOnly(in) == TrimSpace(in.Type) = EmptyString

\* Append's two checks (ledger.go:97-102)
Rejected(in) == TrimSpace(in.Type) = EmptyString \/ TrimSpace(in.Payload) = EmptyString

\* rows that callers are still going to write
Pending == LET n(c) == IF pc[c] = "insert" THEN 1
                       ELSE IF pc[c] = "batch" THEN Len(input[c]) ELSE 0
           IN  n("c1") + n("c2")

\* no CLI command was run
NoCall == [cmd |-> "none", kind |-> "", raw |-> <<>>]

\* the contents of the source files handed to artifacts.Store
BlobContents == {EmptyString, <<"a">>, <<"a", "b">>}

\* the zero Order
NoOrder == [UserID |-> "", Status |-> ""]

\* the directory the blobs are stored in
BlobRoot == <<"r">>

\* the keys requests are limited by: API keys or remote addresses
Keys == {"a", "b"}

\* no rate limiter was constructed. A limiter holds its rate and capacity, its buckets
\* (tokens in halves of a token, lastCheck in halves of a second) and the clock now; allowed
\* counts per key the calls allowed since the clock last moved, steps the steps taken
NoLimiter == [set |-> FALSE, rate |-> 0, capacity |-> 0,
              buckets |-> [key \in {} |-> [tokens |-> 0, lastCheck |-> 0]], now |-> 0,
              allowed |-> [key \in Keys |-> 0], steps |-> 0]

\* a caller that has not called artifacts.Store: no data read, nothing returned; done
\* keeps the content of each call that returned, out what it returned
NoPut == [pc |-> "idle", data |-> EmptyString, sum |-> EmptyString, path |-> EmptyString,
          done |-> <<>>, out |-> <<>>]

Init ==
    /\ table = {}
    /\ seq = 0
    /\ pc = [c \in Callers |-> "idle"]
    /\ input = [c \in Callers |-> <<>>]
    /\ prevHash = [c \in Callers |-> EmptyString]
    /\ buf = [c \in Callers |-> <<>>]
    /\ ret = [c \in Callers |-> "none"]
    /\ mine = [c \in Callers |-> {}]
    /\ asked = [c \in Callers |-> 0]
    /\ rolled = [c \in Callers |-> 0]
    /\ tampered = <<>>
    /\ call = [c \in Callers |-> NoCall]
    /\ file = [path \in {} |-> EmptyString]
    /\ put = [c \in Callers |-> NoPut]
    /\ app = [users |-> {}, orders |-> [id \in {} |-> NoOrder], limiter |-> NoLimiter]

\* ---------------------------------------------------------------- Ledger.Append
\* Append returns "type required" / "payload required" before touching the store
AppendReject(c) ==
    /\ pc[c] = "idle"
    /\ \E in \in RecordInput :
         /\ Rejected(in)
         /\ ret' = [ret EXCEPT ![c] = IF TrimSpace(in.Type) = EmptyString
                                      THEN "type required" ELSE "payload required"]
    /\ mine' = [mine EXCEPT ![c] = {}]
    /\ asked' = [asked EXCEPT ![c] = 1]
    /\ rolled' = [rolled EXCEPT ![c] = 0]
    /\ UNCHANGED <<table, seq, pc, input, prevHash, buf, tampered, call, file, put, app>>

\* the checks pass and l.lastHash() reads the tip (ledger.go:104)
AppendRead(c) ==
    /\ pc[c] = "idle"
    /\ Cardinality(table) + Pending < MaxRecords
    /\ \E in \in RecordInput :
         /\ ~Rejected(in)
         /\ input' = [input EXCEPT ![c] = <<in>>]
    /\ prevHash' = [prevHash EXCEPT ![c] = lastHash(table)]
    /\ pc' = [pc EXCEPT ![c] = "insert"]
    /\ ret' = [ret EXCEPT ![c] = "none"]
    /\ mine' = [mine EXCEPT ![c] = {}]
    /\ asked' = [asked EXCEPT ![c] = 1]
    /\ rolled' = [rolled EXCEPT ![c] = 0]
    /\ UNCHANGED <<table, seq, buf, tampered, call, file, put, app>>

\* an INSERT OR REPLACE that reuses the id of the tip
AppendInsert_Replace(c) ==
    /\ pc[c] = "insert"
    /\ LET in == input[c][1]
           id == IF table = {} THEN 1 ELSE MaxId(table)
           hash == computeHash(prevHash[c], in.Timestamp, in.Type, in.Source, in.Payload)
       IN  /\ table' = {r \in table : r.id # id} \cup {NewRow(id, in, hash, prevHash[c])}
           /\ seq' = id
           /\ mine' = [mine EXCEPT ![c] = {id}]
    /\ pc' = [pc EXCEPT ![c] = "idle"]
    /\ ret' = [ret EXCEPT ![c] = "ok"]
    /\ input' = [input EXCEPT ![c] = <<>>]
    /\ prevHash' = [prevHash EXCEPT ![c] = EmptyString]
    /\ UNCHANGED <<buf, asked, rolled, tampered, call, file, put, app>>

\* computeHash and the INSERT succeed (ledger.go:109-132)
AppendInsert(c) ==
    /\ pc[c] = "insert"
    /\ LET in == input[c][1]
           id == NextId(table, seq)
           hash == computeHash(prevHash[c], in.Timestamp, in.Type, in.Source, in.Payload)
       IN  /\ table' = table \cup {NewRow(id, in, hash, prevHash[c])}
           /\ seq' = id
           /\ mine' = [mine EXCEPT ![c] = {id}]
    /\ pc' = [pc EXCEPT ![c] = "idle"]
    /\ ret' = [ret EXCEPT ![c] = "ok"]
    /\ input' = [input EXCEPT ![c] = <<>>]
    /\ prevHash' = [prevHash EXCEPT ![c] = EmptyString]
    /\ UNCHANGED <<buf, asked, rolled, tampered, call, file, put, app>>

\* a failed INSERT that still uses up an id
AppendInsertFail_BurnsId(c) ==
    /\ pc[c] = "insert"
    /\ pc' = [pc EXCEPT ![c] = "idle"]
    /\ ret' = [ret EXCEPT ![c] = "err"]
    /\ seq' = seq + 1
    /\ input' = [input EXCEPT ![c] = <<>>]
    /\ prevHash' = [prevHash EXCEPT ![c] = EmptyString]
    /\ UNCHANGED <<table, buf, mine, asked, rolled, tampered, call, file, put, app>>

\* l.db.Exec returns an error (ledger.go:115-117): nothing is written
AppendInsertFail(c) ==
    /\ pc[c] = "insert"
    /\ pc' = [pc EXCEPT ![c] = "idle"]
    /\ ret' = [ret EXCEPT ![c] = "err"]
    /\ input' = [input EXCEPT ![c] = <<>>]
    /\ prevHash' = [prevHash EXCEPT ![c] = EmptyString]
    /\ UNCHANGED <<table, seq, buf, mine, asked, rolled, tampered, call, file, put, app>>

\* ---------------------------------------------------------------- Ledger.AppendBatch
\* AppendBatch opens a transaction and reads the tip
BatchBegin(c) ==
    /\ pc[c] = "idle"
    /\ \E b \in Batches :
         /\ Cardinality(table) + Pending + Len(b) <= MaxRecords
         /\ input' = [input EXCEPT ![c] = b]
         /\ asked' = [asked EXCEPT ![c] = Len(b)]
    /\ prevHash' = [prevHash EXCEPT ![c] = lastHash(table)]
    /\ buf' = [buf EXCEPT ![c] = <<>>]
    /\ pc' = [pc EXCEPT ![c] = "batch"]
    /\ ret' = [ret EXCEPT ![c] = "none"]
    /\ mine' = [mine EXCEPT ![c] = {}]
    /\ rolled' = [rolled EXCEPT ![c] = 0]
    /\ UNCHANGED <<table, seq, tampered, call, file, put, app>>

\* a seal whose INSERT runs on the database instead of the transaction
BatchSeal_Autocommit(c) ==
    /\ pc[c] = "batch"
    /\ Len(buf[c]) < Len(input[c])
    /\ LET in == input[c][Len(buf[c]) + 1]
           hash == computeHash(prevHash[c], in.Timestamp, in.Type, in.Source, in.Payload)
           id == NextId(table, seq)
       IN  /\ ~Rejected(in)
           /\ buf' = [buf EXCEPT ![c] = Append(@, NewRow(0, in, hash, prevHash[c]))]
           /\ prevHash' = [prevHash EXCEPT ![c] = hash]
           /\ table' = table \cup {NewRow(id, in, hash, prevHash[c])}
           /\ seq' = id
    /\ UNCHANGED <<pc, input, ret, mine, asked, rolled, tampered, call, file, put, app>>

\* the next input passes the checks: its link is computed and its row is
\* written inside the transaction
BatchSeal(c) ==
    /\ pc[c] = "batch"
    /\ Len(buf[c]) < Len(input[c])
    /\ LET in == input[c][Len(buf[c]) + 1]
           hash == computeHash(prevHash[c], in.Timestamp, in.Type, in.Source, in.Payload)
       IN  /\ ~Rejected(in)
           /\ buf' = [buf EXCEPT ![c] = Append(@, NewRow(0, in, hash, prevHash[c]))]
           /\ prevHash' = [prevHash EXCEPT ![c] = hash]
    /\ UNCHANGED <<table, seq, pc, input, ret, mine, asked, rolled, tampered, call, file, put, app>>

\* an error path that commits what the transaction holds
Rollback_Commits(c) ==
    /\ pc' = [pc EXCEPT ![c] = "idle"]
    /\ ret' = [ret EXCEPT ![c] = "err"]
    /\ rolled' = [rolled EXCEPT ![c] = Len(buf[c])]
    /\ buf' = [buf EXCEPT ![c] = <<>>]
    /\ input' = [input EXCEPT ![c] = <<>>]
    /\ prevHash' = [prevHash EXCEPT ![c] = EmptyString]
    /\ table' = table \cup {[buf[c][k] EXCEPT !.id = NextId(table, seq) + k - 1] :
                               k \in 1..Len(buf[c])}
    /\ seq' = seq + Len(buf[c])
    /\ UNCHANGED <<mine, asked, tampered, call, file, put, app>>

\* the transaction is rolled back and the call returns an error
Rollback(c) ==
    /\ pc' = [pc EXCEPT ![c] = "idle"]
    /\ ret' = [ret EXCEPT ![c] = "err"]
    /\ rolled' = [rolled EXCEPT ![c] = Len(buf[c])]
    /\ buf' = [buf EXCEPT ![c] = <<>>]
    /\ input' = [input EXCEPT ![c] = <<>>]
    /\ prevHash' = [prevHash EXCEPT ![c] = EmptyString]
    /\ UNCHANGED <<table, seq, mine, asked, tampered, call, file, put, app>>

\* the next input has an empty type or payload
BatchReject(c) ==
    /\ pc[c] = "batch"
    /\ Len(buf[c]) < Len(input[c])
    /\ Rejected(input[c][Len(buf[c]) + 1])
    /\ Rollback(c)

\* a storage error at any statement of the transaction, the commit included
BatchFail(c) ==
    /\ pc[c] = "batch"
    /\ Rollback(c)

\* the rows of the transaction become rows of the table, each with the id that
\* AUTOINCREMENT hands out at its INSERT
RECURSIVE InsertAll(_, _, _)
InsertAll(t, s, rows) ==
    IF rows = <<>> THEN [table |-> t, seq |-> s]
    ELSE LET id == NextId(t, s)
         IN  InsertAll(t \cup {[Head(rows) EXCEPT !.id = id]}, id, Tail(rows))

\* the commit makes all rows of the transaction visible at once
BatchCommit(c) ==
    /\ pc[c] = "batch"
    /\ Len(buf[c]) = Len(input[c])
    /\ LET done == InsertAll(table, seq, buf[c])
       IN  /\ table' = done.table
           /\ seq' = done.seq
           /\ mine' = [mine EXCEPT ![c] = Ids(done.table) \ Ids(table)]
    /\ pc' = [pc EXCEPT ![c] = "idle"]
    /\ ret' = [ret EXCEPT ![c] = "ok"]
    /\ buf' = [buf EXCEPT ![c] = <<>>]
    /\ input' = [input EXCEPT ![c] = <<>>]
    /\ prevHash' = [prevHash EXCEPT ![c] = EmptyString]
    /\ UNCHANGED <<asked, rolled, tampered, call, file, put, app>>

\* ---------------------------------------------------------------- readers
\* Ledger.GetByID: the row, or sql.ErrNoRows
GetByID(t, id) == IF id \in Ids(t) THEN [err |-> FALSE, rec |-> Row(t, id)]
                  ELSE [err |-> TRUE, rec |-> <<>>]

\* a selection that leaves out the rows on the bounds
RECURSIVE SelectSeq2_Open(_, _, _)
SelectSeq2_Open(rows, since, until) ==
    IF rows = <<>> THEN <<>>
    ELSE LET r == Head(rows)
             keep == (since > 0 => r.ts > since) /\ (until > 0 => r.ts < until)
         IN  (IF keep THEN <<r>> ELSE <<>>) \o SelectSeq2_Open(Tail(rows), since, until)

RECURSIVE SelectSeq2(_, _, _)
SelectSeq2(rows, since, until) ==
    IF rows = <<>> THEN <<>>
    ELSE LET r == Head(rows)
             keep == (since > 0 => r.ts >= since) /\ (until > 0 => r.ts <= until)
         IN  (IF keep THEN <<r>> ELSE <<>>) \o SelectSeq2(Tail(rows), since, until)

\* Ledger.List
List(t, q) ==
    LET limit == IF q.Limit <= 0 THEN 100 ELSE q.Limit
        rows == SelectSeq2(OrderById(t), q.Since, q.Until)
    IN  IF Len(rows) <= limit THEN rows ELSE SubSeq(rows, 1, limit)

\* a walk that checks the links but does not recompute the hashes
RECURSIVE VerifyRows_LinksOnly(_, _, _)
VerifyRows_LinksOnly(rows, prev, checked) ==
    IF rows = <<>> THEN [OK |-> TRUE, FailedID |-> 0, Reason |-> "", Checked |-> checked]
    ELSE LET rec == Head(rows)
         IN  IF rec.prev_hash # prev
             THEN [OK |-> FALSE, FailedID |-> rec.id, Reason |-> "prev_hash mismatch",
                   Checked |-> checked]
             ELSE VerifyRows_LinksOnly(Tail(rows), rec.hash, checked + 1)

\* the loop of Ledger.VerifyChain over the rows in id order
RECURSIVE VerifyRows(_, _, _)
VerifyRows(rows, prev, checked) ==
    IF rows = <<>> THEN [OK |-> TRUE, FailedID |-> 0, Reason |-> "", Checked |-> checked]
    ELSE LET rec == Head(rows)
             expected == computeHash(prev, rec.ts, rec.type, rec.source, rec.payload)
         IN  IF rec.prev_hash # prev
             THEN [OK |-> FALSE, FailedID |-> rec.id, Reason |-> "prev_hash mismatch",
                   Checked |-> checked]
             ELSE IF rec.hash # expected
             THEN [OK |-> FALSE, FailedID |-> rec.id, Reason |-> "hash mismatch",
                   Checked |-> checked]
             ELSE VerifyRows(Tail(rows), rec.hash, checked + 1)

\* Ledger.VerifyChain
VerifyChain(t) == VerifyRows(OrderById(t), EmptyString, 0)

\* the rows with ts <= targetTime, in ascending id order
UpTo(t, targetTime) == SelectSeq(OrderById(t), LAMBDA r : r.ts <= targetTime)

\* Ledger.VerifyUpTo: the walk of VerifyChain, expected_prev starting empty,
\* over the records with timestamp <= targetTime
VerifyUpTo(t, targetTime) == VerifyRows(UpTo(t, targetTime), EmptyString, 0)

\* ---------------------------------------------------------------- alteration outside the store
Fields == {"id", "ts", "type", "source", "payload", "hash", "prev_hash"}

\* the values an outside writer may put into field f of row r
TamperValues(t, r, f) ==
    CASE f = "id" -> (1..(MaxRecords + 1)) \ Ids(t)
      [] f = "ts" -> {3}
      [] f = "type" -> {<<"b">>}
      [] f = "source" -> {<<"a">>, <<"a", Pipe, "a">>}
      [] f = "payload" -> {<<"a">>, <<"a", Pipe, "a">>}
      [] f = "hash" -> {EmptyString, computeHash(r.prev_hash, r.ts, r.type, r.source, r.payload)}
      [] f = "prev_hash" -> {x.hash : x \in t} \cup {EmptyString}

Altered(r, f, v) ==
    CASE f = "id" -> [r EXCEPT !.id = v]
      [] f = "ts" -> [r EXCEPT !.ts = v]
      [] f = "type" -> [r EXCEPT !.type = v]
      [] f = "source" -> [r EXCEPT !.source = v]
      [] f = "payload" -> [r EXCEPT !.payload = v]
      [] f = "hash" -> [r EXCEPT !.hash = v]
      [] f = "prev_hash" -> [r EXCEPT !.prev_hash = v]

\* an UPDATE of one field of one row, issued on the database file by someone else
Tamper ==
    /\ Len(tampered) < MaxTamper
    /\ \E r \in table, f \in Fields :
         \E v \in TamperValues(table, r, f) :
            LET new == Altered(r, f, v)
                renum(e) == IF e[1] = r.id THEN <<new.id, e[2]>> ELSE e
            IN  /\ new # r
                /\ table' = (table \ {r}) \cup {new}
                /\ tampered' = Append([k \in 1..Len(tampered) |-> renum(tampered[k])],
                                      <<new.id, f>>)
    /\ UNCHANGED <<seq, pc, input, prevHash, buf, ret, mine, asked, rolled, call, file, put, app>>

Next ==
    \E c \in Callers :
        \/ AppendReject(c)
        \/ AppendRead(c)
        \/ AppendInsert(c)
        \/ AppendInsertFail(c)
        \/ BatchBegin(c)
        \/ BatchSeal(c)
        \/ BatchReject(c)
        \/ BatchFail(c)
        \/ BatchCommit(c)

Spec == Init /\ [][Next]_vars

\* the callers of Append together with an outside writer of the database file
NextTamper ==
    \/ \E c \in Callers :
          \/ AppendRead(c) /\ Cardinality(table) + Pending < MaxTamperRecords
          \/ AppendInsert(c)
    \/ Tamper

SpecTamper == Init /\ [][NextTamper]_vars

\* ---------------------------------------------------------------- JSON text
\* A JSON text is a string: a sequence of tokens.  The punctuation and the
\* characters of the values are one-character tokens; the name of a key is one
\* token.  The inputs hold objects whose values are strings and arrays of
\* strings, without insignificant white space and without escapes.
Quote == "\""
LBrace == "{"
RBrace == "}"
LBracket == "["
RBracket == "]"
Comma == ","
Colon == ":"

NoValue == [ok |-> FALSE, val |-> <<>>, rest |-> <<>>]

RECURSIVE ScanString(_, _)
ScanString(s, acc) ==
    IF s = <<>> THEN NoValue
    ELSE IF Head(s) = Quote THEN [ok |-> TRUE, val |-> acc, rest |-> Tail(s)]
    ELSE ScanString(Tail(s), Append(acc, Head(s)))

\* the string literal at the head of s
StringLit(s) == IF s # <<>> /\ Head(s) = Quote THEN ScanString(Tail(s), <<>>) ELSE NoValue

RECURSIVE ScanElems(_, _)
ScanElems(s, acc) ==
    LET e == StringLit(s)
    IN  IF ~e.ok \/ e.rest = <<>> THEN NoValue
        ELSE IF Head(e.rest) = Comma THEN ScanElems(Tail(e.rest), Append(acc, e.val))
        ELSE IF Head(e.rest) = RBracket
             THEN [ok |-> TRUE, val |-> Append(acc, e.val), rest |-> Tail(e.rest)]
        ELSE NoValue

\* the array of strings at the head of s
ArrayLit(s) ==
    IF Len(s) >= 2 /\ s[1] = LBracket /\ s[2] = RBracket
    THEN [ok |-> TRUE, val |-> <<>>, rest |-> SubSeq(s, 3, Len(s))]
    ELSE IF s # <<>> /\ Head(s) = LBracket THEN ScanElems(Tail(s), <<>>)
    ELSE NoValue

RECURSIVE ScanMembers(_, _)
ScanMembers(s, acc) ==
    LET key == StringLit(s)
    IN  IF ~key.ok \/ key.rest = <<>> \/ Head(key.rest) # Colon THEN NoValue
        ELSE LET after == Tail(key.rest)
                 isArray == after # <<>> /\ Head(after) = LBracket
                 v == IF isArray THEN ArrayLit(after) ELSE StringLit(after)
                 m == [name |-> key.val, array |-> isArray, val |-> v.val]
             IN  IF ~v.ok \/ v.rest = <<>> THEN NoValue
                 ELSE IF Head(v.rest) = Comma THEN ScanMembers(Tail(v.rest), Append(acc, m))
                 ELSE IF Head(v.rest) = RBrace
                      THEN [ok |-> TRUE, val |-> Append(acc, m), rest |-> Tail(v.rest)]
                 ELSE NoValue

\* json.Decoder reads the first value of the input: the members of the object,
\* in order; what follows the closing brace is not looked at
ReadValue(raw) ==
    IF Len(raw) >= 2 /\ raw[1] = LBrace /\ raw[2] = RBrace
    THEN [ok |-> TRUE, val |-> <<>>, rest |-> SubSeq(raw, 3, Len(raw))]
    ELSE IF raw # <<>> /\ Head(raw) = LBrace THEN ScanMembers(Tail(raw), <<>>)
    ELSE NoValue

\* ---------------------------------------------------------------- collectors
Kinds == {"code", "config", "environment", "mutation"}

F(name, array, omitempty) == [name |-> name, array |-> array, omitempty |-> omitempty]

\* the fields of CodePayload, ConfigPayload, EnvironmentPayload and
\* MutationPayload in the order of their declaration, with their json tags
Schema(kind) ==
    CASE kind = "code" ->
           << F("repo", FALSE, FALSE), F("commit", FALSE, FALSE),
              F("artifacts", TRUE, TRUE), F("lockfiles", TRUE, TRUE) >>
      [] kind = "config" ->
           << F("source", FALSE, FALSE), F("version", FALSE, FALSE),
              F("hash", FALSE, FALSE), F("snapshot", FALSE, FALSE) >>
      [] kind = "environment" ->
           << F("os", FALSE, FALSE), F("kernel", FALSE, FALSE),
              F("container", FALSE, FALSE), F("runtime", FALSE, FALSE),
              F("arch", FALSE, FALSE), F("flags", TRUE, TRUE),
              F("time_source", FALSE, FALSE) >>
      [] kind = "mutation" ->
           << F("type", FALSE, FALSE), F("id", FALSE, FALSE), F("source", FALSE, FALSE),
              F("hash", FALSE, FALSE), F("external_ref", FALSE, TRUE) >>

Names(kind) == {f.name : f \in Range(Schema(kind))}

FieldOf(kind, name) == CHOOSE f \in Range(Schema(kind)) : f.name = name

\* the zero value of the payload struct
ZeroValue(kind) == [n \in Names(kind) |-> <<>>]

\* the decoder with DisallowUnknownFields stores the members into the struct
RECURSIVE Unmarshal(_, _, _)
Unmarshal(members, kind, out) ==
    IF members = <<>> THEN [err |-> "", val |-> out]
    ELSE LET m == Head(members)
         IN  IF Len(m.name) # 1 \/ m.name[1] \notin Names(kind)
             THEN [err |-> "json: unknown field", val |-> out]
             ELSE IF FieldOf(kind, m.name[1]).array # m.array
             THEN [err |-> "json: cannot unmarshal", val |-> out]
             ELSE Unmarshal(Tail(members), kind, [out EXCEPT ![m.name[1]] = m.val])

\* collectors.ParseJSON
ParseJSON(raw, kind) ==
    LET v == ReadValue(raw)
    IN  IF ~v.ok THEN [err |-> "json: syntax error", val |-> ZeroValue(kind)]
        ELSE Unmarshal(v.val, kind, ZeroValue(kind))

\* the fields the Validate method of the payload checks, in the order it checks them
Required(kind) ==
    CASE kind = "code" -> <<"repo", "commit">>
      [] kind = "config" -> <<"source", "hash", "snapshot">>
      [] kind = "environment" -> <<"os", "runtime", "arch", "time_source">>
      [] kind = "mutation" -> <<"type", "id", "source">>

\* Validate: the error of the first required field that is blank, or ""
Validate(kind, v) ==
    LET req == Required(kind)
        blank == {k \in DOMAIN req : TrimSpace(v[req[k]]) = EmptyString}
    IN  IF blank = {} THEN "" ELSE req[Min(blank)] \o " is required"

RECURSIVE JoinComma(_)
JoinComma(parts) ==
    IF parts = <<>> THEN <<>>
    ELSE IF Len(parts) = 1 THEN parts[1]
    ELSE parts[1] \o <<Comma>> \o JoinComma(Tail(parts))

JSONString(s) == <<Quote>> \o s \o <<Quote>>

JSONArray(a) == <<LBracket>> \o JoinComma([k \in DOMAIN a |-> JSONString(a[k])]) \o <<RBracket>>

\* collectors.MarshalPayload: json.Marshal writes the fields in declaration
\* order and leaves out the empty omitempty ones
MarshalPayload(kind, v) ==
    LET kept == SelectSeq(Schema(kind), LAMBDA f : ~(f.omitempty /\ v[f.name] = <<>>))
        member(f) == JSONString(<<f.name>>) \o <<Colon>>
                       \o (IF f.array THEN JSONArray(v[f.name]) ELSE JSONString(v[f.name]))
    IN  <<LBrace>> \o JoinComma([k \in DOMAIN kept |-> member(kept[k])]) \o <<RBrace>>

\* ---------------------------------------------------------------- the CLI
\* the commands are run one at a time from a shell
Cli == "c1"

\* time.Now().Unix() at the calls of the model
Clock == {2}

\* a Go string that is one token long, or empty
Str(k) == IF k = "" THEN EmptyString ELSE <<k>>

\* the kind named by the type column of a row
KindOf(rtype) == IF Len(rtype) = 1 THEN rtype[1] ELSE ""

Member(name, s) == JSONString(<<name>>) \o <<Colon>> \o JSONString(s)

Object(members) == <<LBrace>> \o JoinComma(members) \o <<RBrace>>

\* the error of Append's checks on an input they reject
AppendError(in) ==
    IF TrimSpace(in.Type) = EmptyString THEN "type required" ELSE "payload required"

\* Ledger.Append called with in: the checks pass and l.lastHash() reads the tip
AppendStart(c, in) ==
    /\ ~Rejected(in)
    /\ input' = [input EXCEPT ![c] = <<in>>]
    /\ prevHash' = [prevHash EXCEPT ![c] = lastHash(table)]
    /\ pc' = [pc EXCEPT ![c] = "insert"]
    /\ ret' = [ret EXCEPT ![c] = "none"]
    /\ mine' = [mine EXCEPT ![c] = {}]
    /\ asked' = [asked EXCEPT ![c] = 1]
    /\ rolled' = [rolled EXCEPT ![c] = 0]
    /\ UNCHANGED <<table, seq, buf, tampered, file, put>>

\* fatal(err), or the error printed by manifest run: nothing was written
Fatal(c, err) ==
    /\ ret' = [ret EXCEPT ![c] = err]
    /\ mine' = [mine EXCEPT ![c] = {}]
    /\ asked' = [asked EXCEPT ![c] = 1]
    /\ rolled' = [rolled EXCEPT ![c] = 0]
    /\ UNCHANGED <<table, seq, pc, input, prevHash, buf, tampered, file, put>>

\* the call of Append that ends a command
AppendOrFatal(c, in) == IF Rejected(in) THEN Fatal(c, AppendError(in)) ELSE AppendStart(c, in)

\* runAppend with the flags a = [type, source, raw, time], up to the INSERT
runAppend(c, a) ==
    /\ pc[c] = "idle"
    /\ UNCHANGED app
    /\ call' = [call EXCEPT ![c] = [cmd |-> "append", kind |-> a.type, raw |-> a.raw]]
    /\ \E now \in Clock :
         LET ts == IF a.time = 0 THEN now ELSE a.time
         IN  IF a.type = "" THEN Fatal(c, "--type is required")
             ELSE IF a.raw = EmptyString THEN Fatal(c, "payload required")
             ELSE AppendOrFatal(c, In(ts, Str(a.type), a.source, a.raw))

\* a collector that serializes what it parsed without validating it
buildCollectorPayload_NoValidate(kind, raw) ==
    IF kind \notin Kinds THEN [recordType |-> "", payload |-> EmptyString, err |-> "unknown kind"]
    ELSE LET p == ParseJSON(raw, kind)
         IN  IF p.err # "" THEN [recordType |-> "", payload |-> EmptyString, err |-> p.err]
             ELSE [recordType |-> kind, payload |-> MarshalPayload(kind, p.val), err |-> ""]

\* buildCollectorPayload: parse, validate, serialize
buildCollectorPayload(kind, raw) ==
    IF kind \notin Kinds THEN [recordType |-> "", payload |-> EmptyString, err |-> "unknown kind"]
    ELSE LET p == ParseJSON(raw, kind)
         IN  IF p.err # "" THEN [recordType |-> "", payload |-> EmptyString, err |-> p.err]
             ELSE IF Validate(kind, p.val) # ""
             THEN [recordType |-> "", payload |-> EmptyString, err |-> Validate(kind, p.val)]
             ELSE [recordType |-> kind, payload |-> MarshalPayload(kind, p.val), err |-> ""]

\* runCollect with the flags a = [kind, source, raw, time], up to the INSERT
runCollect(c, a) ==
    /\ pc[c] = "idle"
    /\ UNCHANGED app
    /\ call' = [call EXCEPT ![c] = [cmd |-> "collect", kind |-> a.kind, raw |-> a.raw]]
    /\ \E now \in Clock :
         LET ts == IF a.time = 0 THEN now ELSE a.time
             b == buildCollectorPayload(a.kind, a.raw)
         IN  IF a.kind = "" THEN Fatal(c, "--kind is required")
             ELSE IF a.raw = EmptyString THEN Fatal(c, "payload required")
             ELSE IF b.err # "" THEN Fatal(c, b.err)
             ELSE AppendOrFatal(c, In(ts, Str(b.recordType), a.source, b.payload))

\* computeConfigHash
computeConfigHash(snapshot) == <<"sha256:">> \o Sha256Hex(snapshot)

\* what the files of the host may hold
FileContents == {EmptyString, <<"s">>, <<"s", Space>>}

\* sources.CaptureGit: not a repository, or the name and the commit of the repository
CaptureGit(repoPath) ==
    { [err |-> "not a git repository", val |-> ZeroValue("code")],
      [err |-> "", val |-> [ZeroValue("code") EXCEPT !["repo"] = <<"r">>,
                                                     !["commit"] = <<"c">>]] }

\* sources.CaptureConfig: the file cannot be read, or its content and digest
CaptureConfig(source) ==
    IF TrimSpace(source) = EmptyString
    THEN {[err |-> "config source path required", val |-> ZeroValue("config")]}
    ELSE {[err |-> "read error", val |-> ZeroValue("config")]} \cup
         { [err |-> "", val |-> [source |-> TrimSpace(source), version |-> <<"1">>,
                                 hash |-> computeConfigHash(data), snapshot |-> data]] :
             data \in FileContents }

\* sources.CaptureEnvironment
CaptureEnvironment ==
    { [err |-> "", val |-> [ZeroValue("environment") EXCEPT
                               !["os"] = <<"linux">>, !["kernel"] = <<"amd64">>,
                               !["runtime"] = <<"go">>, !["arch"] = <<"amd64">>,
                               !["time_source"] = <<"system">>]] }

\* sources.CaptureFromManifest: the results the host may give
CaptureFromManifest(kind, source) ==
    LET captured == CASE kind = "code" -> CaptureGit(source)
                      [] kind = "config" -> CaptureConfig(source)
                      [] kind = "environment" -> CaptureEnvironment
                      [] OTHER -> {}
        result(r) == IF r.err # "" THEN [Payload |-> EmptyString, Error |-> r.err]
                     ELSE [Payload |-> MarshalPayload(kind, r.val), Error |-> ""]
    IN  IF kind \in {"code", "config", "environment"} THEN {result(r) : r \in captured}
        ELSE {[Payload |-> EmptyString, Error |-> ""]}

\* one round of the loop of runManifestRun over the collectors of a manifest
\* that LoadManifest accepted, col = [kind, source], up to the INSERT
runManifestRun(c, col) ==
    /\ pc[c] = "idle"
    /\ UNCHANGED app
    /\ call' = [call EXCEPT ![c] = [cmd |-> "manifest run", kind |-> col.kind, raw |-> EmptyString]]
    /\ \E now \in Clock, result \in CaptureFromManifest(col.kind, col.source) :
         IF result.Error # "" THEN Fatal(c, "error capturing")
         ELSE AppendOrFatal(c, In(now, Str(col.kind), <<"manifest-run">>, result.Payload))

\* ---------------------------------------------------------------- ingest
MaxIngest == 2       \* rows the table may hold in the ingest specification

ValidCode == Object(<<Member("repo", <<"r">>), Member("commit", <<"c">>)>>)

\* command lines of append: no type, no payload, a blank type, a payload that
\* the schema of its type accepts, one that is not JSON, a type that is no kind
AppendArgs ==
    { [type |-> "", source |-> <<"a">>, raw |-> ValidCode, time |-> 1],
      [type |-> "code", source |-> <<"a">>, raw |-> EmptyString, time |-> 1],
      [type |-> Space, source |-> <<"a">>, raw |-> ValidCode, time |-> 1],
      [type |-> "code", source |-> <<"a">>, raw |-> ValidCode, time |-> 0],
      [type |-> "code", source |-> <<"a">>, raw |-> <<"x">>, time |-> 1],
      [type |-> "banana", source |-> <<"a">>, raw |-> ValidCode, time |-> 1] }

\* payloads given to collect: the members in another order than the struct, an
\* unknown member, a cut text, a blank required field, a mutation
CollectRaws ==
    { EmptyString,
      Object(<<Member("commit", <<"c">>), Member("repo", <<"r">>)>>),
      Object(<<Member("repo", <<"r">>), Member("commit", <<"c">>), Member("x", <<"y">>)>>),
      <<LBrace, Quote, "repo", Quote, Colon>>,
      Object(<<Member("repo", <<"r">>), Member("commit", <<Space>>)>>),
      Object(<<Member("type", <<"t">>), Member("id", <<"i">>), Member("source", <<"s">>),
               Member("external_ref", <<"k", Colon, "1">>)>>) }

CollectArgs ==
    { [kind |-> k, source |-> <<"b">>, raw |-> raw, time |-> 0] :
        k \in {"", "banana", "code", "mutation"}, raw \in CollectRaws }

\* collectors of manifests that LoadManifest accepts (Collector.Validate)
ManifestCollectors ==
    { [kind |-> "code", source |-> <<".">>],
      [kind |-> "config", source |-> <<"f">>],
      [kind |-> "environment", source |-> <<"e">>],
      [kind |-> "mutation", source |-> <<"m">>] }

InitIngest == Init

NextIngest ==
    \/ /\ Cardinality(table) < MaxIngest
       /\ \/ \E a \in AppendArgs : runAppend(Cli, a)
          \/ \E a \in CollectArgs : runCollect(Cli, a)
          \/ \E col \in ManifestCollectors : runManifestRun(Cli, col)
    \/ AppendInsert(Cli)
    \/ AppendInsertFail(Cli)

SpecIngest == InitIngest /\ [][NextIngest]_vars

\* ---------------------------------------------------------------- Reconstructor
\* the index of the last token tok of s, 0 when there is none
LastIndex(s, tok) ==
    LET at == {k \in DOMAIN s : s[k] = tok}
    IN  IF at = {} THEN 0 ELSE CHOOSE k \in at : \A j \in at : j <= k

Digits == {"0", "1", "2", "3", "4", "5", "6", "7", "8", "9"}

DigitValue(d) == CHOOSE n \in 0..9 : Digit(n) = d

RECURSIVE DecimalValue(_)
DecimalValue(s) ==
    IF s = <<>> THEN 0 ELSE 10 * DecimalValue(SubSeq(s, 1, Len(s) - 1)) + DigitValue(s[Len(s)])

\* strconv.ParseInt(s, 10, 64) on texts whose value fits an int64: an optional
\* sign and one digit or more
ParseInt(s) ==
    LET signed == s # <<>> /\ Head(s) \in {"+", "-"}
        body == IF signed THEN Tail(s) ELSE s
    IN  IF body = <<>> \/ \E k \in DOMAIN body : body[k] \notin Digits
        THEN [ok |-> FALSE, val |-> 0]
        ELSE [ok |-> TRUE,
              val |-> IF signed /\ Head(s) = "-" THEN 0 - DecimalValue(body)
                      ELSE DecimalValue(body)]

parseExternalRef(value) ==
    LET v == TrimSpace(value)
        idx == LastIndex(v, Colon)
        namespace == IF idx # 0 THEN SubSeq(v, 1, idx - 1) ELSE EmptyString
        parsed == ParseInt(IF idx # 0 THEN SubSeq(v, idx + 1, Len(v)) ELSE v)
    IN  IF v = EmptyString THEN [namespace |-> EmptyString, offset |-> 0, ok |-> FALSE]
        ELSE IF ~parsed.ok THEN [namespace |-> namespace, offset |-> 0, ok |-> FALSE]
        ELSE [namespace |-> namespace, offset |-> parsed.val, ok |-> TRUE]

\* the less functions handed to sort.Slice: "parsed" reads the offsets from the
\* slice that orderMutationRecords filled before sorting, by position;
\* "offset" and "timestamp" read the records
Less(by, parsed, records, i, j) ==
    CASE by = "parsed" ->
           IF parsed[i] = parsed[j] THEN records[i].LedgerID < records[j].LedgerID
           ELSE parsed[i] < parsed[j]
      [] by = "offset" ->
           IF records[i].Offset = records[j].Offset
           THEN records[i].LedgerID < records[j].LedgerID
           ELSE records[i].Offset < records[j].Offset
      [] by = "timestamp" ->
           IF records[i].Timestamp = records[j].Timestamp
           THEN records[i].LedgerID < records[j].LedgerID
           ELSE records[i].Timestamp < records[j].Timestamp

\* a swap that loses the element it overwrites
Swap_Overwrite(records, i, j) == [records EXCEPT ![i] = records[j]]

Swap(records, i, j) == [records EXCEPT ![i] = records[j], ![j] = records[i]]

\* for j := i; j > a && less(j, j-1); j-- { swap(j, j-1) }
RECURSIVE Sink(_, _, _, _)
Sink(records, j, by, parsed) ==
    IF j > 1 /\ Less(by, parsed, records, j, j - 1)
    THEN Sink(Swap(records, j, j - 1), j - 1, by, parsed)
    ELSE records

RECURSIVE InsertionSort(_, _, _, _)
InsertionSort(records, i, by, parsed) ==
    IF i > Len(records) THEN records
    ELSE InsertionSort(Sink(records, i, by, parsed), i + 1, by, parsed)

\* sort.Slice on a slice of at most 12 elements is an insertion sort; it swaps
\* the elements of the slice it was given and of no other
SortSlice(records, by, parsed) == InsertionSort(records, 2, by, parsed)

\* the first loop of orderMutationRecords, from record i on
RECURSIVE ScanRefs(_, _, _, _, _)
ScanRefs(records, i, namespace, sameNamespace, parsed) ==
    IF i > Len(records)
    THEN [allNumeric |-> TRUE, sameNamespace |-> sameNamespace, parsed |-> parsed]
    ELSE LET ref == parseExternalRef(records[i].ExternalRef)
         IN  IF ~ref.ok
             THEN [allNumeric |-> FALSE, sameNamespace |-> sameNamespace, parsed |-> parsed]
             ELSE ScanRefs(records, i + 1,
                           IF namespace = EmptyString THEN ref.namespace ELSE namespace,
                           sameNamespace /\ (namespace = EmptyString \/ namespace = ref.namespace),
                           [parsed EXCEPT ![i] = ref.offset])

orderMutationRecords(records) ==
    LET scan == ScanRefs(records, 1, EmptyString, TRUE, [k \in DOMAIN records |-> 0])
    IN  IF scan.allNumeric /\ scan.sameNamespace
        THEN SortSlice(records, "parsed", scan.parsed)
        ELSE SortSlice(records, "timestamp", scan.parsed)

canOrderByOffset(records) ==
    /\ records # <<>>
    /\ \A k \in DOMAIN records :
          /\ TrimSpace(records[k].ExternalRef) # EmptyString
          /\ parseExternalRef(records[k].ExternalRef).ok

\* the key of the bucket of a record
BucketOf(rec) == IF TrimSpace(rec.Namespace) = EmptyString THEN <<"default">> ELSE rec.Namespace

\* the keys in the reverse of the order of their first appearance
RECURSIVE BucketOrder_LastFirst(_, _)
BucketOrder_LastFirst(records, order) ==
    IF records = <<>> THEN order
    ELSE BucketOrder_LastFirst(Tail(records),
                               IF BucketOf(Head(records)) \in Range(order) THEN order
                               ELSE <<BucketOf(Head(records))>> \o order)

\* the keys in the order of their first appearance
RECURSIVE BucketOrder(_, _)
BucketOrder(records, order) ==
    IF records = <<>> THEN order
    ELSE BucketOrder(Tail(records),
                     IF BucketOf(Head(records)) \in Range(order) THEN order
                     ELSE Append(order, BucketOf(Head(records))))

\* a plan with ordered buckets sorted by timestamp
NamespacePlan_ByTimestamp(ns, records) ==
    LET list == SelectSeq(records, LAMBDA rec : BucketOf(rec) = ns)
        ordered == canOrderByOffset(list)
    IN  [Namespace |-> ns, Count |-> Len(list), Ordered |-> ordered,
         Records |-> SortSlice(list, "timestamp", <<>>)]

\* one round of the second loop of buildReplayPlan
NamespacePlan(ns, records) ==
    LET list == SelectSeq(records, LAMBDA rec : BucketOf(rec) = ns)
        ordered == canOrderByOffset(list)
    IN  [Namespace |-> ns, Count |-> Len(list), Ordered |-> ordered,
         Records |-> IF ordered THEN SortSlice(list, "offset", <<>>)
                     ELSE SortSlice(list, "timestamp", <<>>)]

\* buildReplayPlan; nil is the plan that is not there
buildReplayPlan(records) ==
    IF records = <<>> THEN [nil |-> TRUE, Namespaces |-> <<>>, Total |-> 0]
    ELSE LET order == BucketOrder(records, <<>>)
         IN  [nil |-> FALSE,
              Namespaces |-> [k \in DOMAIN order |-> NamespacePlan(order[k], records)],
              Total |-> Len(records)]

\* List's cap in ReconstructAtTime
ReconstructLimit == 10000

\* a nil pointer, and the pointer to a payload
Nil == [set |-> FALSE, val |-> <<>>]

Ptr(v) == [set |-> TRUE, val |-> v]

\* the state, the coverage and the issues before the loop over the records
EmptyState ==
    [Code |-> Nil, Config |-> Nil, Environment |-> Nil, Mutations |-> <<>>,
     MutationRecords |-> <<>>, Issues |-> <<>>,
     HasCode |-> FALSE, HasConfig |-> FALSE, HasEnvironment |-> FALSE, HasMutations |-> FALSE]

NewMutationRecord(rec, mp) ==
    LET ref == parseExternalRef(mp["external_ref"])
    IN  [LedgerID |-> rec.id, Timestamp |-> rec.ts, Type |-> mp["type"], ID |-> mp["id"],
         Source |-> mp["source"], Hash |-> mp["hash"], ExternalRef |-> mp["external_ref"],
         Namespace |-> ref.namespace, Offset |-> ref.offset]

\* the body of the loop of ReconstructAtTime over the listed records
Visit(st, rec, targetTime) ==
    LET kind == KindOf(rec.type)
        p == ParseJSON(rec.payload, kind)
    IN  IF rec.ts > targetTime \/ kind \notin Kinds THEN st
        ELSE IF p.err # ""
        THEN [st EXCEPT !.Issues = Append(@, kind \o " parse error: " \o p.err)]
        ELSE CASE kind = "code" -> [st EXCEPT !.Code = Ptr(p.val), !.HasCode = TRUE]
               [] kind = "config" -> [st EXCEPT !.Config = Ptr(p.val), !.HasConfig = TRUE]
               [] kind = "environment" ->
                    [st EXCEPT !.Environment = Ptr(p.val), !.HasEnvironment = TRUE]
               [] kind = "mutation" ->
                    [st EXCEPT !.Mutations = Append(@, p.val),
                               !.MutationRecords = Append(@, NewMutationRecord(rec, p.val)),
                               !.HasMutations = TRUE]

RECURSIVE Resolve(_, _, _)
Resolve(recs, targetTime, st) ==
    IF recs = <<>> THEN st ELSE Resolve(Tail(recs), targetTime, Visit(st, Head(recs), targetTime))

\* a score that deducts 2 for every mutation with a blank external_ref
calculateDeterminismScore_PerRecord(st) ==
    LET base == (IF st.HasCode THEN 25 ELSE 0) + (IF st.HasConfig THEN 25 ELSE 0)
                  + (IF st.HasEnvironment THEN 25 ELSE 0) + (IF st.HasMutations THEN 25 ELSE 0)
        time == IF st.Environment.set /\ st.Environment.val["time_source"] # <<"system">>
                THEN 5 ELSE 0
        ref == 2 * Cardinality({k \in DOMAIN st.Mutations :
                                   TrimSpace(st.Mutations[k]["external_ref"]) = EmptyString})
        score == base - time - ref
    IN  IF score < 0 THEN 0 ELSE score

\* calculateDeterminismScore; every value the score takes is a whole number
calculateDeterminismScore(st) ==
    LET base == (IF st.HasCode THEN 25 ELSE 0) + (IF st.HasConfig THEN 25 ELSE 0)
                  + (IF st.HasEnvironment THEN 25 ELSE 0) + (IF st.HasMutations THEN 25 ELSE 0)
        time == IF st.Environment.set /\ st.Environment.val["time_source"] # <<"system">>
                THEN 5 ELSE 0
        ref == IF \E k \in DOMAIN st.Mutations :
                     TrimSpace(st.Mutations[k]["external_ref"]) = EmptyString
               THEN 2 ELSE 0
        score == base - time - ref
    IN  IF score < 0 THEN 0 ELSE score

\* the loop of applyProvenanceChecks over the mutation records, with its breaks
RECURSIVE MutationChecks(_, _, _, _)
MutationChecks(records, seen, seenExternal, namespaces) ==
    IF records = <<>> THEN [issues |-> <<>>, namespaces |-> namespaces]
    ELSE LET m == Head(records)
             hasID == TrimSpace(m.ID) # EmptyString
         IN  IF hasID /\ m.ID \in seen
             THEN [issues |-> <<"provenance: duplicate mutation id " \o Flatten(m.ID)>>,
                   namespaces |-> namespaces]
             ELSE IF TrimSpace(m.ExternalRef) = EmptyString
             THEN [issues |-> <<"provenance: mutation missing external_ref">>,
                   namespaces |-> namespaces]
             ELSE IF m.ExternalRef \in seenExternal
             THEN [issues |-> <<"provenance: duplicate external_ref " \o Flatten(m.ExternalRef)>>,
                   namespaces |-> namespaces]
             ELSE MutationChecks(Tail(records),
                                 IF hasID THEN seen \cup {m.ID} ELSE seen,
                                 seenExternal \cup {m.ExternalRef},
                                 IF TrimSpace(m.Namespace) # EmptyString
                                 THEN namespaces \cup {m.Namespace} ELSE namespaces)

\* applyProvenanceChecks: the issues it appends
applyProvenanceChecks(st) ==
    LET code == IF st.Code.set /\ Len(TrimSpace(st.Code.val["commit"])) < 7
                THEN <<"provenance: code commit hash too short">> ELSE <<>>
        snapshot == TrimSpace(st.Config.val["snapshot"])
        config == IF ~st.Config.set THEN <<>>
                  ELSE IF snapshot = EmptyString THEN <<"provenance: config snapshot empty">>
                  ELSE IF /\ TrimSpace(st.Config.val["hash"]) # EmptyString
                          /\ st.Config.val["hash"] # computeConfigHash(snapshot)
                       THEN <<"provenance: config hash mismatch">>
                  ELSE <<>>
        env == IF /\ st.Environment.set
                  /\ \/ TrimSpace(st.Environment.val["os"]) = EmptyString
                     \/ TrimSpace(st.Environment.val["runtime"]) = EmptyString
               THEN <<"provenance: environment fields missing">> ELSE <<>>
        checks == MutationChecks(st.MutationRecords, {}, {}, {})
        mixed == IF st.MutationRecords # <<>> /\ Cardinality(checks.namespaces) > 1
                 THEN <<"provenance: mixed external_ref namespaces detected">> ELSE <<>>
    IN  code \o config \o env \o checks.issues \o mixed

\* a reconstruction that parse errors make fail, proof included
ReconstructAtTime_Fatal(t, targetTime, now) ==
    LET recs == List(t, [Since |-> 0, Until |-> targetTime, Limit |-> ReconstructLimit])
        st == Resolve(recs, targetTime, EmptyState)
        proof == VerifyUpTo(t, targetTime)
    IN  [RequestTime |-> now,
         TargetTime |-> targetTime,
         Success |-> st.Issues = <<>>,
         RecordsMatched |-> Len(recs),
         Coverage |-> [HasCode |-> st.HasCode, HasConfig |-> st.HasConfig,
                       HasEnvironment |-> st.HasEnvironment, HasMutations |-> st.HasMutations,
                       Complete |-> st.HasCode /\ st.HasConfig /\ st.HasEnvironment
                                      /\ st.HasMutations],
         DeterminismScore |-> calculateDeterminismScore(st),
         Issues |-> st.Issues \o applyProvenanceChecks(st),
         Proof |-> [proof EXCEPT !.OK = @ /\ st.Issues = <<>>],
         ReplayPlan |-> buildReplayPlan(st.MutationRecords),
         State |-> [Timestamp |-> targetTime, Code |-> st.Code, Config |-> st.Config,
                    Environment |-> st.Environment, Mutations |-> st.Mutations,
                    MutationRecords |-> st.MutationRecords]]

\* Reconstructor.ReconstructAtTime, called at the wall-clock time now
ReconstructAtTime(t, targetTime, now) ==
    LET recs == List(t, [Since |-> 0, Until |-> targetTime, Limit |-> ReconstructLimit])
        seen == Resolve(recs, targetTime, EmptyState)
        st == IF Len(seen.MutationRecords) > 1
              THEN [seen EXCEPT !.MutationRecords = orderMutationRecords(@)]
              ELSE seen
        warnings ==
            (IF ~st.HasCode THEN <<"warning: no code snapshot">> ELSE <<>>)
            \o (IF ~st.HasConfig THEN <<"warning: no config snapshot">> ELSE <<>>)
            \o (IF ~st.HasEnvironment THEN <<"warning: no environment snapshot">> ELSE <<>>)
            \o (IF ~st.HasMutations THEN <<"warning: no mutations recorded">> ELSE <<>>)
    IN  [RequestTime |-> now,
         TargetTime |-> targetTime,
         Success |-> TRUE,
         RecordsMatched |-> Len(recs),
         Coverage |-> [HasCode |-> st.HasCode, HasConfig |-> st.HasConfig,
                       HasEnvironment |-> st.HasEnvironment, HasMutations |-> st.HasMutations,
                       Complete |-> st.HasCode /\ st.HasConfig /\ st.HasEnvironment
                                      /\ st.HasMutations],
         DeterminismScore |-> calculateDeterminismScore(st),
         Issues |-> st.Issues \o applyProvenanceChecks(st) \o warnings,
         Proof |-> VerifyUpTo(t, targetTime),
         ReplayPlan |-> buildReplayPlan(st.MutationRecords),
         State |-> [Timestamp |-> targetTime, Code |-> st.Code, Config |-> st.Config,
                    Environment |-> st.Environment, Mutations |-> st.Mutations,
                    MutationRecords |-> st.MutationRecords]]

\* formatScore on the whole values that the score takes: fmt's %.1f between
\* the two ends
formatScore(score) ==
    IF score >= 100 THEN "100"
    ELSE IF score <= 0 THEN "0"
    ELSE Flatten(Decimal(score)) \o ".0"

\* the line of ExplainFailure for a dimension that is not covered
MissingLine(dimension) ==
    CASE dimension = "HasCode" -> "  - Code snapshot (cannot verify binary/version)"
      [] dimension = "HasConfig" -> "  - Configuration snapshot (cannot replicate settings)"
      [] dimension = "HasEnvironment" -> "  - Environment snapshot (OS/runtime/arch unknown)"
      [] dimension = "HasMutations" -> "  - Mutation records (data mutations untracked)"

Dimensions == <<"HasCode", "HasConfig", "HasEnvironment", "HasMutations">>

\* an explanation that leaves the issues out
ExplainFailure_NoIssues(report) ==
    IF report.Success /\ report.Coverage.Complete
    THEN <<"reconstruction possible: all dimensions captured">>
    ELSE <<"Reconstruction not fully possible. Missing:">>
         \o [k \in DOMAIN SelectSeq(Dimensions, LAMBDA d : ~report.Coverage[d]) |->
               MissingLine(SelectSeq(Dimensions, LAMBDA d : ~report.Coverage[d])[k])]
         \o <<"", "Determinism Score: " \o formatScore(report.DeterminismScore) \o "%">>
         \o (IF report.DeterminismScore < 50
             THEN <<"(Low confidence: use for forensics only, not audit proof)">>
             ELSE IF report.DeterminismScore < 100
             THEN <<"(Partial: some dimensions missing but state may be representative)">>
             ELSE <<>>)

\* Reconstructor.ExplainFailure: the lines of the explanation
ExplainFailure(report) ==
    IF report.Success /\ report.Coverage.Complete
    THEN <<"reconstruction possible: all dimensions captured">>
    ELSE <<"Reconstruction not fully possible. Missing:">>
         \o [k \in DOMAIN SelectSeq(Dimensions, LAMBDA d : ~report.Coverage[d]) |->
               MissingLine(SelectSeq(Dimensions, LAMBDA d : ~report.Coverage[d])[k])]
         \o (IF Len(report.Issues) > 0
             THEN <<"", "Errors encountered:">>
                  \o [k \in DOMAIN report.Issues |-> "  - " \o report.Issues[k]]
             ELSE <<>>)
         \o <<"", "Determinism Score: " \o formatScore(report.DeterminismScore) \o "%">>
         \o (IF report.DeterminismScore < 50
             THEN <<"(Low confidence: use for forensics only, not audit proof)">>
             ELSE IF report.DeterminismScore < 100
             THEN <<"(Partial: some dimensions missing but state may be representative)">>
             ELSE <<>>)

\* ---------------------------------------------------------------- Snapshot
\* the rows with ts <= bound in the order of ORDER BY id DESC
RECURSIVE SelectDesc(_, _)
SelectDesc(t, bound) ==
    IF t = {} THEN <<>>
    ELSE LET last == Row(t, MaxId(t))
         IN  (IF last.ts <= bound THEN <<last>> ELSE <<>>) \o SelectDesc(t \ {last}, bound)

\* the first record of a type in a list, as a pointer
FirstOfType(records, rtype) ==
    LET at == {k \in DOMAIN records : records[k].type = <<rtype>>}
    IN  IF at = {} THEN Nil ELSE Ptr(records[Min(at)])

\* Ledger.ResolveSnapshotAt
ResolveSnapshotAt(t, ts) ==
    LET records == SelectDesc(t, ts)
    IN  [ID |-> IF records # <<>> THEN records[1].id ELSE 0,
         Timestamp |-> ts,
         Records |-> records,
         CodeRecord |-> FirstOfType(records, "code"),
         ConfigRecord |-> FirstOfType(records, "config"),
         EnvironmentRecord |-> FirstOfType(records, "environment"),
         MutationRecords |-> SelectSeq(records, LAMBDA rec : rec.type = <<"mutation">>)]

\* strings.Join(parts, "|")
RECURSIVE JoinPipe(_)
JoinPipe(parts) ==
    IF parts = <<>> THEN EmptyString
    ELSE IF Len(parts) = 1 THEN parts[1]
    ELSE parts[1] \o <<Pipe>> \o JoinPipe(Tail(parts))

\* Snapshot.ComputeHash
ComputeHash(snapshot) ==
    Sha256Hex(JoinPipe([k \in DOMAIN snapshot.Records |-> snapshot.Records[k].hash]))

\* strings.Join(parts, ", ") of Go strings kept whole
RECURSIVE JoinCommaSpace(_)
JoinCommaSpace(parts) ==
    IF parts = <<>> THEN ""
    ELSE IF Len(parts) = 1 THEN parts[1]
    ELSE parts[1] \o ", " \o JoinCommaSpace(Tail(parts))

\* Snapshot.Validate
SnapshotValidate(snapshot) ==
    LET missing == (IF ~snapshot.CodeRecord.set THEN <<"code">> ELSE <<>>)
                     \o (IF ~snapshot.ConfigRecord.set THEN <<"config">> ELSE <<>>)
                     \o (IF ~snapshot.EnvironmentRecord.set THEN <<"environment">> ELSE <<>>)
        valid == snapshot.CodeRecord.set /\ snapshot.EnvironmentRecord.set
    IN  [Valid |-> valid,
         Timestamp |-> snapshot.Timestamp,
         Reason |-> IF valid THEN "Full reconstruction possible"
                    ELSE IF Len(missing) > 0 THEN "Missing: " \o JoinCommaSpace(missing)
                    ELSE "",
         MissingComponents |-> missing,
         NondeterminismRisks |-> IF Len(snapshot.MutationRecords) = 0
                                 THEN <<"no mutations recorded">> ELSE <<>>,
         VerificationStatus |-> "OK",
         SnapshotHash |-> ComputeHash(snapshot)]

\* ---------------------------------------------------------------- snapshots
MaxSnapshot == 3     \* rows the table may hold in the snapshot specification

\* the instants asked of snapshot --time; the command line passes a negative
\* --time to ReconstructAtTime as it is
SnapshotTimes == -1..3

\* command lines of append under the kinds of the snapshot: two code payloads,
\* a text under code that is not JSON, a config, an environment, a mutation
SnapshotArgs ==
    { [type |-> "code", source |-> <<"a">>, raw |-> ValidCode, time |-> 1],
      [type |-> "code", source |-> <<"a">>, time |-> 2,
       raw |-> Object(<<Member("repo", <<"r">>), Member("commit", <<"d">>)>>)],
      [type |-> "code", source |-> <<"a">>, raw |-> <<"x">>, time |-> 2],
      [type |-> "config", source |-> <<"a">>, time |-> 1,
       raw |-> Object(<<Member("source", <<"f">>), Member("hash", <<"h">>),
                        Member("snapshot", <<"s">>)>>)],
      [type |-> "environment", source |-> <<"a">>, time |-> 3,
       raw |-> Object(<<Member("os", <<"l">>), Member("time_source", <<"n">>)>>)],
      [type |-> "mutation", source |-> <<"a">>, time |-> 2,
       raw |-> Object(<<Member("type", <<"t">>), Member("id", <<"i">>),
                        Member("source", <<"s">>)>>)] }

InitSnapshot == Init

NextSnapshot ==
    \/ /\ Cardinality(table) < MaxSnapshot
       /\ \E a \in SnapshotArgs : runAppend(Cli, a)
    \/ AppendInsert(Cli)
    \/ AppendInsertFail(Cli)

SpecSnapshot == InitSnapshot /\ [][NextSnapshot]_vars

\* ---------------------------------------------------------------- replay
MaxReplay == 3       \* rows the table may hold in the replay specification

\* the payload of a mutation with the reference ref; no member when ref is empty
Mutation(id, ref) ==
    Object(<<Member("type", <<"t">>), Member("id", <<id>>), Member("source", <<"s">>)>>
           \o (IF ref = EmptyString THEN <<>> ELSE <<Member("external_ref", ref)>>))

\* command lines of collect --kind mutation: offsets of one namespace out of
\* their order, a reference without a colon, one that is no number, none, an
\* offset of a second namespace
ReplayArgs ==
    { [kind |-> "mutation", source |-> <<"b">>, raw |-> Mutation("u", <<"k", Colon, "3">>),
       time |-> 0],
      [kind |-> "mutation", source |-> <<"b">>, raw |-> Mutation("v", <<"k", Colon, "1">>),
       time |-> 1],
      [kind |-> "mutation", source |-> <<"b">>, raw |-> Mutation("w", <<"k", Colon, "2">>),
       time |-> 0],
      [kind |-> "mutation", source |-> <<"b">>, raw |-> Mutation("x", <<"5">>), time |-> 1],
      [kind |-> "mutation", source |-> <<"b">>, raw |-> Mutation("y", <<"x">>), time |-> 0],
      [kind |-> "mutation", source |-> <<"b">>, raw |-> Mutation("z", EmptyString),
       time |-> 1],
      [kind |-> "mutation", source |-> <<"b">>, raw |-> Mutation("j", <<"j", Colon, "1">>),
       time |-> 1] }

InitReplay == Init

NextReplay ==
    \/ /\ Cardinality(table) < MaxReplay
       /\ \E a \in ReplayArgs : runCollect(Cli, a)
    \/ AppendInsert(Cli)
    \/ AppendInsertFail(Cli)

SpecReplay == InitReplay /\ [][NextReplay]_vars

\* ---------------------------------------------------------------- config capture
MaxConfig == 3       \* rows the table may hold in the config specification

\* command lines of append --type config: a hash that is not the digest of the
\* snapshot, no hash, the digest of a snapshot with white space around it
ConfigArgs ==
    { [type |-> "config", source |-> <<"a">>, time |-> 1,
       raw |-> Object(<<Member("source", <<"f">>), Member("hash", <<"sha256:", "wrong">>),
                        Member("snapshot", <<"s">>)>>)],
      [type |-> "config", source |-> <<"a">>, time |-> 2,
       raw |-> Object(<<Member("source", <<"f">>), Member("hash", EmptyString),
                        Member("snapshot", <<"s">>)>>)],
      [type |-> "config", source |-> <<"a">>, time |-> 2,
       raw |-> Object(<<Member("source", <<"f">>),
                        Member("hash", computeConfigHash(<<Space, "s">>)),
                        Member("snapshot", <<Space, "s">>)>>)] }

InitConfig == Init

NextConfig ==
    \/ /\ Cardinality(table) < MaxConfig
       /\ \/ \E a \in ConfigArgs : runAppend(Cli, a)
          \/ runManifestRun(Cli, [kind |-> "config", source |-> <<"f">>])
    \/ AppendInsert(Cli)
    \/ AppendInsertFail(Cli)

SpecConfig == InitConfig /\ [][NextConfig]_vars

\* ---------------------------------------------------------------- coverage
MaxCoverage == 4     \* rows the table may hold in the coverage specification

Environment(timeSource) ==
    Object(<<Member("os", <<"l">>), Member("runtime", <<"g">>), Member("arch", <<"a">>)>>
           \o (IF timeSource = EmptyString THEN <<>>
               ELSE <<Member("time_source", timeSource)>>))

\* command lines of append, one kind each or more: a code, a config, an
\* environment on another clock, one on the system clock, one that does not
\* name its clock, a mutation without reference, one with a reference
CoverageArgs ==
    { [type |-> "code", source |-> <<"a">>, raw |-> ValidCode, time |-> 2],
      [type |-> "config", source |-> <<"a">>, time |-> 2,
       raw |-> Object(<<Member("source", <<"f">>), Member("hash", computeConfigHash(<<"s">>)),
                        Member("snapshot", <<"s">>)>>)],
      [type |-> "environment", source |-> <<"a">>, raw |-> Environment(<<"n">>), time |-> 1],
      [type |-> "environment", source |-> <<"a">>, raw |-> Environment(<<"system">>),
       time |-> 1],
      [type |-> "environment", source |-> <<"a">>, raw |-> Environment(EmptyString),
       time |-> 2],
      [type |-> "mutation", source |-> <<"a">>, raw |-> Mutation("u", EmptyString), time |-> 1],
      [type |-> "mutation", source |-> <<"a">>, raw |-> Mutation("v", <<"k", Colon, "1">>),
       time |-> 1] }

\* the instants of the snapshots taken of these ledgers
CoverageTimes == 0..2

InitCoverage == Init

NextCoverage ==
    \/ /\ Cardinality(table) < MaxCoverage
       /\ \E a \in CoverageArgs : runAppend(Cli, a)
    \/ AppendInsert(Cli)
    \/ AppendInsertFail(Cli)

SpecCoverage == InitCoverage /\ [][NextCoverage]_vars

\* ---------------------------------------------------------------- artifacts.Store
\* the number of Store calls one caller makes
MaxPuts == 2

\* filepath.Join of a directory and a file name
JoinPath(dir, name) == dir \o <<"/">> \o name

\* a Store that names the output file after the caller's source file, not the digest
StoreRead_BySource(c, content) ==
    /\ put[c].pc = "idle"
    /\ Len(put[c].out) < MaxPuts
    /\ put' = [put EXCEPT ![c] = [@ EXCEPT !.pc = "open", !.data = content,
                                          !.sum = Sha256Hex(content),
                                          !.path = JoinPath(BlobRoot, <<c>>)]]
    /\ UNCHANGED file

\* os.Open, io.ReadAll through the TeeReader, hex of the SHA-256 sum: the content and
\* digest, and the output path root/<digest>
StoreRead(c, content) ==
    /\ put[c].pc = "idle"
    /\ Len(put[c].out) < MaxPuts
    /\ put' = [put EXCEPT ![c] = [@ EXCEPT !.pc = "open", !.data = content,
                                          !.sum = Sha256Hex(content),
                                          !.path = JoinPath(BlobRoot, Sha256Hex(content))]]
    /\ UNCHANGED file

\* os.WriteFile, first half: OpenFile with O_WRONLY|O_CREATE|O_TRUNC creates the file or
\* empties the one that is there
StoreOpen(c) ==
    /\ put[c].pc = "open"
    /\ file' = [path \in DOMAIN file \cup {put[c].path} |->
                    IF path = put[c].path THEN EmptyString ELSE file[path]]
    /\ put' = [put EXCEPT ![c].pc = "write"]

\* the bytes of a file after data was written at offset 0
WriteAtStart(old, data) ==
    IF Len(old) <= Len(data) THEN data ELSE data \o SubSeq(old, Len(data) + 1, Len(old))

\* os.WriteFile, second half: Write of the whole content at offset 0, then Close
StoreWrite(c) ==
    /\ put[c].pc = "write"
    /\ file' = [file EXCEPT ![put[c].path] = WriteAtStart(@, put[c].data)]
    /\ put' = [put EXCEPT ![c].pc = "stat"]

\* the StoredArtifact a Store call returns
StoredArtifact(path, sum, size) == [Path |-> path, Checksum |-> sum, Size |-> size]

\* os.Stat of the output file and the return of the StoredArtifact with info.Size()
StoreStat(c) ==
    /\ put[c].pc = "stat"
    /\ put' = [put EXCEPT ![c] = [@ EXCEPT !.pc = "idle",
            !.done = Append(@, put[c].data),
            !.out = Append(@, StoredArtifact(put[c].path, put[c].sum,
                                             Len(file[put[c].path])))]]
    /\ UNCHANGED file

InitBlob == Init

NextBlob ==
    \/ /\ \E c \in Callers : \E content \in BlobContents : StoreRead(c, content)
       /\ UNCHANGED <<ledgerVars, app>>
    \/ /\ \E c \in Callers : StoreOpen(c)
       /\ UNCHANGED <<ledgerVars, app>>
    \/ /\ \E c \in Callers : StoreWrite(c)
       /\ UNCHANGED <<ledgerVars, app>>
    \/ /\ \E c \in Callers : StoreStat(c)
       /\ UNCHANGED <<ledgerVars, app>>

SpecBlob == InitBlob /\ [][NextBlob]_vars

\* ---------------------------------------------------------------- payload validation
\* the strings a field of a payload is drawn from: empty, white space, a value
FieldStrings == {EmptyString, <<Space>>, <<"x">>}

\* the payload structs of a kind with every string field drawn from FieldStrings
Payloads(kind) ==
    {v \in [Names(kind) -> FieldStrings] :
        \A f \in Range(Schema(kind)) : f.array => v[f.name] = EmptyString}

\* the Validate method called on the payload v of the kind: nil or the error
validate(c, kind, v) ==
    /\ pc[c] = "idle"
    /\ call' = [call EXCEPT ![c] = [cmd |-> "validate", kind |-> kind,
                                     raw |-> MarshalPayload(kind, v)]]
    /\ ret' = [ret EXCEPT ![c] = IF Validate(kind, v) = "" THEN "ok" ELSE Validate(kind, v)]
    /\ UNCHANGED <<table, seq, pc, input, prevHash, buf, mine, asked, rolled, tampered,
                   file, put, app>>

InitValidate == Init

NextValidate == \E kind \in Kinds : \E v \in Payloads(kind) : validate(Cli, kind, v)

SpecValidate == InitValidate /\ [][NextValidate]_vars

\* ---------------------------------------------------------------- the microservice
\* the number of events the requests of the model append
MaxEvents == 3

\* the ids of the users and orders of the requests; a blank id is refused
UserIDs == {"u", ""}

OrderIDs == {"o", ""}

\* the handler has an order to update after its event was recorded
PaymentRecorded(c) == call[c].cmd = "payment" /\ pc[c] = "idle" /\ ret[c] = "ok"

\* the request handlers of one connection run one after the other
Ready(c) == pc[c] = "idle" /\ ~PaymentRecorded(c)

\* the payload of recordEvent: eventType:userID:data, data being the first 100 bytes of
\* the compressed JSON of the event
EventPayload(eventType, userID, data) ==
    <<eventType, Colon>> \o Str(userID) \o <<Colon, "z(" \o data \o ")">>

\* recordEvent up to the INSERT of Ledger.Append
recordEvent(c, eventType, userID, data) ==
    \E now \in Clock :
        AppendStart(c, In(now, <<"event">>, <<"microservice">>,
                          EventPayload(eventType, userID, data)))

\* POST /users/register: the user is stored, then the event is recorded
handleRegisterUser(c, id) ==
    /\ Ready(c)
    /\ call' = [call EXCEPT ![c] = [cmd |-> "register", kind |-> "", raw |-> Str(id)]]
    /\ IF id = ""
       THEN Fatal(c, "id, name, and email required") /\ UNCHANGED app
       ELSE /\ Cardinality(table) + Pending < MaxEvents
            /\ app' = [app EXCEPT !.users = @ \cup {id}]
            /\ recordEvent(c, "user.signup", id, id)

\* orders with the entry of id set to order
SetOrder(orders, id, order) ==
    [k \in DOMAIN orders \cup {id} |-> IF k = id THEN order ELSE orders[k]]

\* POST /orders: the order is stored with status created, then the event is recorded
handleCreateOrder(c, id, userID) ==
    /\ Ready(c)
    /\ call' = [call EXCEPT ![c] = [cmd |-> "order", kind |-> "", raw |-> Str(id)]]
    /\ IF id = "" \/ userID = ""
       THEN Fatal(c, "id, user_id, and amount required") /\ UNCHANGED app
       ELSE /\ Cardinality(table) + Pending < MaxEvents
            /\ app' = [app EXCEPT !.orders =
                           SetOrder(@, id, [UserID |-> userID, Status |-> "created"])]
            /\ recordEvent(c, "order.created", userID, id)

\* POST /orders/{id}/ship: the status is set to shipped, then the event is recorded
handleShipOrder(c, id) ==
    /\ Ready(c)
    /\ call' = [call EXCEPT ![c] = [cmd |-> "ship", kind |-> "", raw |-> Str(id)]]
    /\ IF id \notin DOMAIN app.orders
       THEN Fatal(c, "order not found") /\ UNCHANGED app
       ELSE /\ Cardinality(table) + Pending < MaxEvents
            /\ app' = [app EXCEPT !.orders[id].Status = "shipped"]
            /\ recordEvent(c, "order.shipped", app.orders[id].UserID, id)

\* POST /payments: the event is recorded first
handleProcessPayment(c, id) ==
    /\ Ready(c)
    /\ call' = [call EXCEPT ![c] = [cmd |-> "payment", kind |-> "", raw |-> Str(id)]]
    /\ UNCHANGED app
    /\ IF id \notin DOMAIN app.orders
       THEN Fatal(c, "order not found")
       ELSE /\ Cardinality(table) + Pending < MaxEvents
            /\ recordEvent(c, "payment.processed", app.orders[id].UserID, id)

\* POST /payments, after recordEvent returned nil: the status is set to paid
handlePaymentPaid(c) ==
    /\ PaymentRecorded(c)
    /\ app' = [app EXCEPT !.orders[call[c].raw[1]].Status = "paid"]
    /\ call' = [call EXCEPT ![c].cmd = "paid"]
    /\ UNCHANGED <<table, seq, pc, input, prevHash, buf, ret, mine, asked, rolled, tampered,
                   file, put>>

InitService == Init

NextService ==
    \E c \in Callers :
        \/ \E id \in UserIDs : handleRegisterUser(c, id)
        \/ \E id \in OrderIDs, userID \in UserIDs : handleCreateOrder(c, id, userID)
        \/ \E id \in OrderIDs : handleShipOrder(c, id)
        \/ \E id \in OrderIDs : handleProcessPayment(c, id)
        \/ handlePaymentPaid(c)
        \/ AppendInsert(c)
        \/ AppendInsertFail(c)

SpecService == InitService /\ [][NextService]_vars

\* ---------------------------------------------------------------- manifests
\* rows the table may hold in the manifest specification
MaxManifest == 2

\* a Collector without params
Collector(kind, source) == [Kind |-> kind, Source |-> source]

\* manifest.NewManifest
NewManifest(name) == [Version |-> <<"1", ".", "0">>, Name |-> name, Collectors |-> <<>>]

\* Manifest.AddCollector
AddCollector(m, kind, source) ==
    [m EXCEPT !.Collectors = Append(@, Collector(Str(kind), source))]

\* Manifest.ToJSON: the members in the order of the struct's fields
ToJSON(m) ==
    LET collector(col) == Object(<<Member("kind", col.Kind), Member("source", col.Source)>>)
    IN  Object(<<Member("version", m.Version), Member("name", m.Name),
                 JSONString(<<"collectors">>) \o <<Colon, LBracket>>
                   \o JoinComma([k \in DOMAIN m.Collectors |-> collector(m.Collectors[k])])
                   \o <<RBracket>>>>)

\* the element of a set of one element: the value is computed once
The(S) == CHOOSE x \in S : TRUE

RECURSIVE ScanObjects(_, _)
ScanObjects(s, acc) ==
    The({ IF ~o.ok \/ o.rest = <<>> THEN NoValue
          ELSE IF Head(o.rest) = Comma THEN ScanObjects(Tail(o.rest), Append(acc, o.val))
          ELSE IF Head(o.rest) = RBracket
               THEN [ok |-> TRUE, val |-> Append(acc, o.val), rest |-> Tail(o.rest)]
          ELSE NoValue : o \in {ReadValue(s)} })

\* the array of objects at the head of s
ObjectsLit(s) ==
    IF Len(s) >= 2 /\ s[1] = LBracket /\ s[2] = RBracket
    THEN [ok |-> TRUE, val |-> <<>>, rest |-> SubSeq(s, 3, Len(s))]
    ELSE IF s # <<>> /\ Head(s) = LBracket THEN ScanObjects(Tail(s), <<>>)
    ELSE NoValue

\* the members of a manifest object: strings and arrays of objects
RECURSIVE ScanManifest(_, _)
ScanManifest(s, acc) ==
    The({ IF ~key.ok \/ key.rest = <<>> \/ Head(key.rest) # Colon THEN NoValue
          ELSE LET after == Tail(key.rest)
                   isArray == after # <<>> /\ Head(after) = LBracket
               IN  The({ IF ~v.ok \/ v.rest = <<>> THEN NoValue
                         ELSE LET m == [name |-> key.val, array |-> isArray, val |-> v.val]
                              IN  IF Head(v.rest) = Comma
                                  THEN ScanManifest(Tail(v.rest), Append(acc, m))
                                  ELSE IF Head(v.rest) = RBrace
                                  THEN [ok |-> TRUE, val |-> Append(acc, m),
                                        rest |-> Tail(v.rest)]
                                  ELSE NoValue :
                         v \in {IF isArray THEN ObjectsLit(after) ELSE StringLit(after)} }) :
          key \in {StringLit(s)} })

\* json.Unmarshal stores the members of a collector object; unknown members are skipped
RECURSIVE UnmarshalCollector(_, _)
UnmarshalCollector(members, out) ==
    IF members = <<>> THEN [err |-> "", val |-> out]
    ELSE LET m == Head(members)
         IN  IF m.name \notin {<<"kind">>, <<"source">>}
             THEN UnmarshalCollector(Tail(members), out)
             ELSE IF m.array THEN [err |-> "json: cannot unmarshal", val |-> out]
             ELSE UnmarshalCollector(Tail(members),
                      IF m.name = <<"kind">> THEN [out EXCEPT !.Kind = m.val]
                      ELSE [out EXCEPT !.Source = m.val])

RECURSIVE UnmarshalCollectors(_, _)
UnmarshalCollectors(objects, out) ==
    IF objects = <<>> THEN [err |-> "", val |-> out]
    ELSE LET col == UnmarshalCollector(Head(objects), Collector(EmptyString, EmptyString))
         IN  IF col.err # "" THEN [err |-> col.err, val |-> out]
             ELSE UnmarshalCollectors(Tail(objects), Append(out, col.val))

\* json.Unmarshal stores the members of the manifest object
RECURSIVE UnmarshalMembers(_, _)
UnmarshalMembers(members, out) ==
    IF members = <<>> THEN [err |-> "", val |-> out]
    ELSE LET m == Head(members)
         IN  IF m.name \in {<<"version">>, <<"name">>}
             THEN IF m.array THEN [err |-> "json: cannot unmarshal", val |-> out]
                  ELSE UnmarshalMembers(Tail(members),
                           IF m.name = <<"version">> THEN [out EXCEPT !.Version = m.val]
                           ELSE [out EXCEPT !.Name = m.val])
             ELSE IF m.name = <<"collectors">>
             THEN IF ~m.array THEN [err |-> "json: cannot unmarshal", val |-> out]
                  ELSE LET cols == UnmarshalCollectors(m.val, <<>>)
                       IN  IF cols.err # "" THEN [err |-> cols.err, val |-> out]
                           ELSE UnmarshalMembers(Tail(members),
                                                 [out EXCEPT !.Collectors = cols.val])
             ELSE UnmarshalMembers(Tail(members), out)

\* the zero Manifest
NoManifest == [Version |-> EmptyString, Name |-> EmptyString, Collectors |-> <<>>]

\* json.Unmarshal(data, &m)
UnmarshalManifest(data) ==
    The({ IF ~v.ok \/ v.rest # <<>> THEN [err |-> "json: syntax error", val |-> NoManifest]
          ELSE UnmarshalMembers(v.val, NoManifest) :
          v \in { IF Len(data) >= 2 /\ data[1] = LBrace /\ data[2] = RBrace
                  THEN [ok |-> TRUE, val |-> <<>>, rest |-> SubSeq(data, 3, Len(data))]
                  ELSE IF data # <<>> /\ Head(data) = LBrace
                  THEN ScanManifest(Tail(data), <<>>)
                  ELSE NoValue } })

\* Collector.Validate
CollectorValidate(col) ==
    IF col.Kind \notin {<<k>> : k \in Kinds} THEN "invalid kind"
    ELSE IF TrimSpace(col.Source) = EmptyString THEN "source is required"
    ELSE ""

\* Manifest.Validate: the error of the first check that fails, or ""; the index that
\* the code puts into the error of a collector is left out
ManifestValidate(m) ==
    LET bad == {k \in DOMAIN m.Collectors : CollectorValidate(m.Collectors[k]) # ""}
    IN  IF TrimSpace(m.Version) = EmptyString THEN "version is required"
        ELSE IF TrimSpace(m.Name) = EmptyString THEN "name is required"
        ELSE IF Len(m.Collectors) = 0 THEN "at least one collector is required"
        ELSE IF bad # {} THEN "collector: " \o CollectorValidate(m.Collectors[Min(bad)])
        ELSE ""

\* manifest.LoadManifest of the file at path
LoadManifest(path) ==
    IF path \notin DOMAIN file THEN [err |-> "no such file", val |-> NoManifest]
    ELSE The({ IF m.err # "" THEN [err |-> m.err, val |-> NoManifest]
               ELSE IF ManifestValidate(m.val) # ""
               THEN [err |-> ManifestValidate(m.val), val |-> NoManifest]
               ELSE m : m \in {UnmarshalManifest(file[path])} })

\* the files of the file system with the file at path holding data
WriteFile(path, data) ==
    [p \in DOMAIN file \cup {path} |-> IF p = path THEN data ELSE file[p]]

\* the manifest file of the model
ManifestPaths == {<<"m">>}

\* runManifestCreate with the flags --name and --output
runManifestCreate(c, name, output) ==
    /\ pc[c] = "idle"
    /\ call' = [call EXCEPT ![c] = [cmd |-> "manifest create", kind |-> "", raw |-> output]]
    /\ file' = WriteFile(output, ToJSON(AddCollector(AddCollector(NewManifest(name),
                                            "code", <<".">>), "environment", EmptyString)))
    /\ ret' = [ret EXCEPT ![c] = "ok"]
    /\ UNCHANGED <<table, seq, pc, input, prevHash, buf, mine, asked, rolled, tampered,
                   put, app>>

\* manifests written by hand: complete ones, one of them with an environment collector
\* without source, and ones that lack the version, the name, the collectors, the source
\* of a code collector, or name a kind that does not exist
WrittenManifests ==
    LET m(version, name, cols) == [Version |-> version, Name |-> name, Collectors |-> cols]
    IN  { m(<<"1">>, <<"n">>, <<Collector(<<"code">>, <<".">>),
                                Collector(<<"environment">>, <<"e">>)>>),
          m(<<"1">>, <<"n">>, <<Collector(<<"environment">>, EmptyString)>>),
          m(<<"1">>, <<"n">>, <<Collector(<<"config">>, <<"f">>),
                                Collector(<<"mutation">>, <<"t">>)>>),
          m(EmptyString, <<"n">>, <<Collector(<<"code">>, <<".">>)>>),
          m(<<"1">>, <<Space>>, <<Collector(<<"code">>, <<".">>)>>),
          m(<<"1">>, <<"n">>, <<>>),
          m(<<"1">>, <<"n">>, <<Collector(<<"code">>, EmptyString)>>),
          m(<<"1">>, <<"n">>, <<Collector(<<"config">>, <<Space>>)>>),
          m(<<"1">>, <<"n">>, <<Collector(<<"mutation">>, EmptyString)>>),
          m(<<"1">>, <<"n">>, <<Collector(<<"banana">>, <<"b">>)>>) }

\* the operator writes a manifest file with an editor
EditManifest(path, m) ==
    /\ pc[Cli] = "idle"
    /\ file' = WriteFile(path, ToJSON(m))
    /\ UNCHANGED <<ledgerVars, put, app>>

\* runManifestRun up to the loop: LoadManifest of the file, which ends the command when
\* it fails; data keeps the text that was read and rest the collectors still to run
runManifestLoad(c, path) ==
    /\ pc[c] = "idle"
    /\ \E m \in {LoadManifest(path)} :
         LET data == IF path \in DOMAIN file THEN file[path] ELSE EmptyString
         IN  /\ call' = [call EXCEPT ![c] = [cmd |-> "manifest load", kind |-> "",
                                             raw |-> path, data |-> data,
                                             rest |-> m.val.Collectors]]
             /\ ret' = [ret EXCEPT ![c] = IF m.err = "" THEN "loaded" ELSE m.err]
    /\ UNCHANGED <<table, seq, pc, input, prevHash, buf, mine, asked, rolled, tampered,
                   file, put, app>>

\* the loop of runManifestRun has collectors left to run
InLoop(c) == call[c].cmd = "manifest load" /\ call[c].rest # <<>>

\* one round of the loop of runManifestRun, up to the INSERT
runManifestRound(c) ==
    /\ pc[c] = "idle"
    /\ InLoop(c)
    /\ call' = [call EXCEPT ![c].rest = Tail(@)]
    /\ UNCHANGED app
    /\ LET col == Head(call[c].rest)
       IN  \E now \in Clock, result \in CaptureFromManifest(col.Kind[1], col.Source) :
             IF result.Error # "" THEN Fatal(c, "error capturing")
             ELSE AppendOrFatal(c, In(now, col.Kind, <<"manifest-run">>, result.Payload))

InitManifest == Init

NextManifest ==
    \/ /\ ~InLoop(Cli)
       /\ \/ \E output \in ManifestPaths : runManifestCreate(Cli, <<"d">>, output)
          \/ \E path \in ManifestPaths, m \in WrittenManifests : EditManifest(path, m)
          \/ \E path \in ManifestPaths : runManifestLoad(Cli, path)
    \/ /\ Cardinality(table) < MaxManifest
       /\ runManifestRound(Cli)
    \/ AppendInsert(Cli)
    \/ AppendInsertFail(Cli)

SpecManifest == InitManifest /\ [][NextManifest]_vars

\* ---------------------------------------------------------------- the API server
\* rows the table may hold in the API specification
MaxApi == 2

\* the limit of a request that names none, and the largest limit a request may name
DefaultLimit == 100

MaxLimit == 1000

\* the records the CLI appends to the ledger that the server reads
ApiArgs == {a \in SnapshotArgs : a.type \in {"config", "environment", "mutation"}}

\* the values of the query parameters limit and offset; the empty one is an absent
\* parameter
LimitParams ==
    { EmptyString, <<"-", "1">>, <<"a", "b", "d">>, <<"2", "0", "0", "0">>, <<"0">>, <<"1">>,
      <<"1", "0", "0", "0">>, <<"1", "0", "0", "1">> }

OffsetParams == {EmptyString, <<"a", "b", "c">>, <<"-", "1">>, <<"0">>, <<"1">>, <<"5">>}

\* GET /api/v1/records?limit=l&offset=o: the status and the ids of the records of the
\* answer
handleListRecords(c, l, o) ==
    /\ pc[c] = "idle"
    /\ call' = [call EXCEPT ![c] = [cmd |-> "GET /api/v1/records", kind |-> "",
                                     raw |-> EmptyString, limit |-> l, offset |-> o]]
    /\ \E now \in Clock :
         LET limit == IF l # EmptyString /\ ParseInt(l).ok /\ ParseInt(l).val > 0
                           /\ ParseInt(l).val <= MaxLimit
                      THEN ParseInt(l).val ELSE DefaultLimit
             offset == IF o # EmptyString /\ ParseInt(o).ok /\ ParseInt(o).val >= 0
                       THEN ParseInt(o).val ELSE 0
             records == List(table, [Since |-> 0, Until |-> now, Limit |-> limit + offset])
             from == IF offset > Len(records) THEN Len(records) ELSE offset
             end == IF from + limit > Len(records) THEN Len(records) ELSE from + limit
         IN  /\ ret' = [ret EXCEPT ![c] = "200"]
             /\ mine' = [mine EXCEPT ![c] = {records[k].id : k \in (from + 1)..end}]
    /\ UNCHANGED <<table, seq, pc, input, prevHash, buf, asked, rolled, tampered, file, put,
                   app>>

InitApi == Init

NextApi ==
    \/ /\ Cardinality(table) < MaxApi
       /\ \E a \in ApiArgs : runAppend(Cli, a)
    \/ \E l \in LimitParams, o \in OffsetParams : handleListRecords(Cli, l, o)
    \/ AppendInsert(Cli)
    \/ AppendInsertFail(Cli)

SpecApi == InitApi /\ [][NextApi]_vars

\* ---------------------------------------------------------------- the stress test
\* the largest number of events a run of the stress test is asked to generate
MaxStress == 3

\* the number of workers the batches name as their source
Concurrency == 5

\* the attempts generateLoadConcurrent makes at one batch
Attempts == 3

\* the configurations of a run: -events and -batch
StressConfigs == [NumEvents : 0..MaxStress, BatchSize : 1..MaxBatch]

\* the number of batches of a run
totalBatches(config) == (config.NumEvents + config.BatchSize - 1) \div config.BatchSize

\* the records of one batch: the events batch*BatchSize .. of the run that are below
\* NumEvents
BatchRecords(config, batch, now) ==
    LET first == batch * config.BatchSize
        n == IF first + config.BatchSize > config.NumEvents
             THEN config.NumEvents - first ELSE config.BatchSize
    IN  [i \in 1..n |-> In(now, <<"stress_test">>,
                           <<"batch-">> \o Decimal(batch % Concurrency),
                           <<"Event", Space>> \o Decimal(first + i - 1))]

\* the stress test is at the head of its loop over the batches
AtLoop(c) == call[c].cmd = "stress" /\ call[c].at = "loop" /\ pc[c] = "idle"

\* main up to the call of generateLoadConcurrent: a new ledger and the counters at 0
stressStart(c, config) ==
    /\ pc[c] = "idle"
    /\ call[c].cmd = "none"
    /\ table = {}
    /\ call' = [call EXCEPT ![c] = [cmd |-> "stress", kind |-> "", raw |-> EmptyString,
                                     config |-> config, at |-> "loop", batch |-> 0,
                                     attempt |-> 0, records |-> <<>>, createdEvents |-> 0,
                                     failedEvents |-> 0, verify |-> [err |-> FALSE],
                                     out |-> <<>>]]
    /\ UNCHANGED <<table, seq, pc, input, prevHash, buf, ret, mine, asked, rolled, tampered,
                   file, put, app>>

\* one attempt at the batch: the records are built before the first attempt, and
\* AppendBatch is called with them
stressAttempt(c) ==
    /\ AtLoop(c)
    /\ call[c].batch < totalBatches(call[c].config)
    /\ \E now \in Clock :
         LET records == IF call[c].attempt = 0
                        THEN BatchRecords(call[c].config, call[c].batch, now)
                        ELSE call[c].records
         IN  /\ call' = [call EXCEPT ![c].at = "append", ![c].records = records]
             /\ input' = [input EXCEPT ![c] = records]
             /\ asked' = [asked EXCEPT ![c] = Len(records)]
    /\ prevHash' = [prevHash EXCEPT ![c] = lastHash(table)]
    /\ buf' = [buf EXCEPT ![c] = <<>>]
    /\ pc' = [pc EXCEPT ![c] = "batch"]
    /\ ret' = [ret EXCEPT ![c] = "none"]
    /\ mine' = [mine EXCEPT ![c] = {}]
    /\ rolled' = [rolled EXCEPT ![c] = 0]
    /\ UNCHANGED <<table, seq, tampered, file, put, app>>

\* AppendBatch returned: the events are counted as created, or the batch is tried
\* again, or after the last attempt its events are counted as failed
stressReturn(c) ==
    /\ pc[c] = "idle"
    /\ call[c].cmd = "stress"
    /\ call[c].at = "append"
    /\ LET count == Len(call[c].records)
       IN  call' = [call EXCEPT ![c] =
                       IF ret[c] = "ok"
                       THEN [@ EXCEPT !.at = "loop", !.batch = @ + 1, !.attempt = 0,
                                      !.createdEvents = @ + count]
                       ELSE IF call[c].attempt + 1 < Attempts
                       THEN [@ EXCEPT !.at = "loop", !.attempt = @ + 1]
                       ELSE [@ EXCEPT !.at = "loop", !.batch = @ + 1, !.attempt = 0,
                                      !.failedEvents = @ + count]]
    /\ UNCHANGED <<table, seq, pc, input, prevHash, buf, ret, mine, asked, rolled, tampered,
                   file, put, app>>

\* what VerifyChain returns to the stress test: the zero result with an error when the
\* query fails
VerifyOrError(t, err) ==
    IF err THEN [OK |-> FALSE, FailedID |-> 0, Reason |-> "", Checked |-> 0, err |-> TRUE]
    ELSE [OK |-> VerifyChain(t).OK, FailedID |-> VerifyChain(t).FailedID,
          Reason |-> VerifyChain(t).Reason, Checked |-> VerifyChain(t).Checked,
          err |-> FALSE]

\* the line phase 2 prints about the chain
StatusLine(result) ==
    IF result.err THEN "ERROR: Chain verification failed"
    ELSE IF result.OK THEN "Status: VALID"
    ELSE "Status: INVALID - " \o result.Reason

\* the lines of phase 4
Summary(createdEvents, result) ==
    << "Total Events: " \o Flatten(Decimal(createdEvents)),
       "Success Rate: 100.00%",
       "Chain Integrity: VERIFIED",
       "Records in Ledger: " \o Flatten(Decimal(result.Checked)),
       "Status: PRODUCTION READY" >>

\* main after the load: phase 2 verifies the chain and phase 4 verifies it again and
\* prints the summary
stressSummary(c) ==
    /\ AtLoop(c)
    /\ call[c].batch = totalBatches(call[c].config)
    /\ \E err2 \in BOOLEAN, err4 \in BOOLEAN :
         LET second == VerifyOrError(table, err2)
             final == VerifyOrError(table, err4)
         IN  call' = [call EXCEPT ![c].at = "done", ![c].verify = final,
                                  ![c].out = <<StatusLine(second)>>
                                             \o Summary(call[c].createdEvents, final)]
    /\ UNCHANGED <<table, seq, pc, input, prevHash, buf, ret, mine, asked, rolled, tampered,
                   file, put, app>>

InitStress == Init

NextStress ==
    \/ \E config \in StressConfigs : stressStart(Cli, config)
    \/ stressAttempt(Cli)
    \/ BatchSeal(Cli)
    \/ BatchCommit(Cli)
    \/ BatchFail(Cli)
    \/ stressReturn(Cli)
    \/ stressSummary(Cli)

SpecStress == InitStress /\ [][NextStress]_vars

\* ---------------------------------------------------------------- the rate limiter
\* the steps a limiter takes: calls of Allow, movements of the clock, cleanups
MaxAllow == 5

\* the halves that make a token, and a second
Halves == 2

\* the seconds after which an unused bucket is removed
CleanupInterval == 300

\* the rates and capacities a limiter is constructed with
Rates == {0, 1, 3}

Capacities == {0, 1, 2}

\* the time that passes between two calls, in halves of a second: half a second, one
\* second, and more than the cleanup interval
Durations == {1, Halves, Halves * CleanupInterval + 1}

\* NewRateLimiter(rate, capacity): no buckets
NewRateLimiter(rate, capacity) ==
    /\ ~app.limiter.set
    /\ app' = [app EXCEPT !.limiter = [NoLimiter EXCEPT !.set = TRUE, !.rate = rate,
                                                         !.capacity = capacity]]
    /\ UNCHANGED <<ledgerVars, file, put>>

\* a token is taken where there is one
TakeToken(tokens) == IF tokens >= Halves THEN tokens - Halves ELSE tokens

\* the tokens of a bucket after the time since lastCheck has been credited
Refill(b, now, rate, capacity) ==
    LET elapsed == now - b.lastCheck
        tokens == b.tokens + elapsed * rate
    IN  IF tokens > Halves * capacity THEN Halves * capacity ELSE tokens

\* Allow(key): the first call for a key makes its bucket and is allowed; a later call
\* credits the elapsed time and is allowed when a whole token is there
Allow(key) ==
    /\ app.limiter.set
    /\ app.limiter.steps < MaxAllow
    /\ LET rl == app.limiter
           exists == key \in DOMAIN rl.buckets
           tokens == IF exists THEN Refill(rl.buckets[key], rl.now, rl.rate, rl.capacity)
                     ELSE Halves * (rl.capacity - 1)
           allow == ~exists \/ tokens >= Halves
           b == [tokens |-> IF exists THEN TakeToken(tokens) ELSE tokens,
                 lastCheck |-> rl.now]
       IN  app' = [app EXCEPT !.limiter =
                       [rl EXCEPT !.buckets = [k \in DOMAIN rl.buckets \cup {key} |->
                                                  IF k = key THEN b ELSE rl.buckets[k]],
                                  !.allowed[key] = IF allow THEN @ + 1 ELSE @,
                                  !.steps = @ + 1]]
    /\ UNCHANGED <<ledgerVars, file, put>>

\* time passes between two calls
Tick(d) ==
    /\ app.limiter.set
    /\ app.limiter.steps < MaxAllow
    /\ app' = [app EXCEPT !.limiter.now = @ + d,
                          !.limiter.allowed = [key \in Keys |-> 0],
                          !.limiter.steps = @ + 1]
    /\ UNCHANGED <<ledgerVars, file, put>>

\* the buckets cleanupLoop removes
Stale(rl) == {key \in DOMAIN rl.buckets :
                 rl.now - rl.buckets[key].lastCheck > Halves * CleanupInterval}

\* cleanupLoop: the ticker fired and the buckets unused for longer than the cleanup
\* interval are removed
cleanupLoop ==
    /\ app.limiter.set
    /\ app.limiter.steps < MaxAllow
    /\ Stale(app.limiter) # {}
    /\ LET rl == app.limiter
       IN  app' = [app EXCEPT !.limiter.buckets =
                       [key \in DOMAIN rl.buckets \ Stale(rl) |-> rl.buckets[key]],
                              !.limiter.steps = @ + 1]
    /\ UNCHANGED <<ledgerVars, file, put>>

InitLimiter == Init

NextLimiter ==
    \/ \E rate \in Rates, capacity \in Capacities : NewRateLimiter(rate, capacity)
    \/ \E key \in Keys : Allow(key)
    \/ \E d \in Durations : Tick(d)
    \/ cleanupLoop

SpecLimiter == InitLimiter /\ [][NextLimiter]_vars

\* ---------------------------------------------------------------- properties
\* the caller took a step of its own AppendBatch call in this transition
BatchStepOf(c) == pc[c] = "batch" /\ (pc'[c] # pc[c] \/ buf'[c] # buf[c])

AllRecords == [Since |-> 0, Until |-> 0, Limit |-> MaxRecords + 1]

\* the target times asked of the readers: before, at, between and after the
\* timestamps of the inputs
TargetTimes == 0..3

\* the errors of Append's two checks
RejectErrors == {"type required", "payload required"}

\* C1: every record with id > 1 has prev_hash equal to the hash of the record
\* with the preceding id, and the first record has the empty prev_hash.
C1_ChainSoundness ==
    \A r \in table :
        IF r.id = 1 THEN r.prev_hash = EmptyString
        ELSE (r.id - 1) \in Ids(table) /\ r.prev_hash = Row(table, r.id - 1).hash

\* C2: at most one caller at a time is between reading the chain tip and
\* committing its record.
C2_WritesSerialized == Cardinality({c \in Callers : pc[c] = "insert"}) <= 1

C4_BatchAtomicity ==
    [][\A c \in Callers :
         (BatchStepOf(c) /\ ret'[c] # "ok") =>
            /\ table' = table
            /\ seq' = seq
            /\ lastHash(table') = lastHash(table)
            /\ List(table', AllRecords) = List(table, AllRecords)]_vars

C4_Witness ==
    \E c \in Callers : ret[c] = "err" /\ rolled[c] >= 1 /\ table # {}

\* C5: whenever a step of an AppendBatch call changes what readers see, the
\* table gains all records of the batch in that one step.
C5_NoTornBatch ==
    [][\A c \in Callers :
         (BatchStepOf(c) /\ table' # table) =>
            /\ table \subseteq table'
            /\ Cardinality(table' \ table) = Len(input[c])
            /\ Len(List(table', AllRecords)) = Len(List(table, AllRecords)) + Len(input[c])
            /\ \A i \in mine'[c] : GetByID(table, i).err /\ ~GetByID(table', i).err]_vars

C5_Witness ==
    \E c, d \in Callers :
        /\ ret[c] = "ok" /\ Cardinality(mine[c]) = 2
        /\ pc[d] = "batch" /\ Len(buf[d]) >= 1

C7_VerifyOk ==
    tampered = <<>> =>
        /\ VerifyChain(table).OK
        /\ VerifyChain(table).Checked = Cardinality(table)

\* C8: every record's hash is H of its own stored prev_hash, timestamp, kind,
\* source and payload.
C8_LinkComputability ==
    \A r \in table : r.hash = computeHash(r.prev_hash, r.ts, r.type, r.source, r.payload)

C8_Witness ==
    /\ Cardinality(table) = MaxRecords
    /\ \E r \in table : r.prev_hash # EmptyString

\* C9: no committed record has a kind or source with a pipe, and two records
\* with the same prev_hash and different (timestamp, kind, source, payload)
\* have different hash inputs.
C9_UnambiguousEncoding ==
    /\ \A r \in table : Pipe \notin Range(r.type) /\ Pipe \notin Range(r.source)
    /\ \A r1, r2 \in table :
          (/\ r1.prev_hash = r2.prev_hash
           /\ <<r1.ts, r1.type, r1.source, r1.payload>> # <<r2.ts, r2.type, r2.source, r2.payload>>)
          => HashInput(r1.prev_hash, r1.ts, r1.type, r1.source, r1.payload)
               # HashInput(r2.prev_hash, r2.ts, r2.type, r2.source, r2.payload)

\* C10: the ids of the committed records are exactly 1..n.
C10_DenseIds == Ids(table) = 1..Cardinality(table) /\ seq = Cardinality(table)

\* rows committed after an append was rejected and a batch was rolled back
C10_Witness ==
    /\ Cardinality(table) >= 2
    /\ \E c \in Callers : ret[c] = "err" /\ rolled[c] >= 1

\* C11: a committed record is never changed or removed: after every step,
\* get_by_id of every committed id returns the seven field values it returned
\* before the step, and the listing keeps them in place.
C11_Immutable ==
    [][\A i \in Ids(table) :
         /\ ~GetByID(table', i).err
         /\ GetByID(table', i).rec = GetByID(table, i).rec
         /\ \E k \in 1..Len(List(table', AllRecords)) :
               List(table', AllRecords)[k] = Row(table, i)]_vars

\* the first record is still there after two more appends and a verification
C11_Witness ==
    /\ Cardinality(table) = MaxRecords
    /\ 1 \in Ids(table)
    /\ VerifyChain(table).Checked >= 1

\* C16: no record with an empty kind or an empty payload is ever committed,
\* and the step in which an append returns the error of a failed check
\* leaves the table and last_hash as they were.
C16_RejectedAppend ==
    [][/\ \A r \in table' : r.type # EmptyString /\ r.payload # EmptyString
       /\ \A c \in Callers :
            (ret'[c] \in RejectErrors /\ ret'[c] # ret[c]) =>
               /\ table' = table
               /\ Cardinality(table') = Cardinality(table)
               /\ lastHash(table') = lastHash(table)]_vars

\* an append rejected for its payload on a ledger that already has a tip
C16_Witness ==
    \E c \in Callers : ret[c] = "payload required" /\ lastHash(table) # EmptyString

\* C12: on a ledger that was not altered and whose whole chain verifies,
\* verify_up_to(T) returns ok=true for every target time T, with checked
\* equal to the number of records whose timestamp is at most T.
C12_VerifyUpToOk ==
    (tampered = <<>> /\ VerifyChain(table).OK) =>
        \A T \in TargetTimes :
            /\ VerifyUpTo(table, T).OK
            /\ VerifyUpTo(table, T).Checked = Cardinality({r \in table : r.ts <= T})

\* C13: the records that verify_up_to(T) checks are the records with the ids
\* 1..checked: the proof starts at id 1 and skips no id.
C13_ProofFromGenesis ==
    \A T \in TargetTimes :
        LET rows == UpTo(table, T)
            n == VerifyUpTo(table, T).Checked
        IN  {rows[k].id : k \in 1..n} = 1..n

\* the schema of the kind accepts the payload: it parses and it validates
Acceptable(kind, raw) ==
    /\ kind \in Kinds
    /\ ParseJSON(raw, kind).err = ""
    /\ Validate(kind, ParseJSON(raw, kind).val) = ""

\* the text is an object with a member that the struct of the kind does not have
HasUnknownMember(kind, raw) ==
    /\ ReadValue(raw).ok
    /\ \E m \in Range(ReadValue(raw).val) : m.name \notin {<<n>> : n \in Names(kind)}

\* C14: every committed record has a kind in {code, config, environment,
\* mutation} and a payload that parses and validates under the schema of
\* that kind.
C14_OnlyValidPayloads ==
    \A r \in table : Acceptable(KindOf(r.type), r.payload)

\* C15: the step of a collect command whose kind is known and whose bytes
\* do not parse under the schema of that kind (bytes with a member the schema
\* does not have included), or parse and fail validation, returns an error, starts no write, and leaves the table and the tip as
\* they were.
C15_CollectRejects ==
    [][\A c \in Callers :
         (/\ call'[c].cmd = "collect"
          /\ call'[c] # call[c] \/ ret'[c] # ret[c] \/ pc'[c] # pc[c]
          /\ pc[c] = "idle"
          /\ call'[c].kind \in Kinds
          /\ ~Acceptable(call'[c].kind, call'[c].raw) \/ HasUnknownMember(call'[c].kind, call'[c].raw))
         => /\ ret'[c] \notin {"none", "ok"}
            /\ pc'[c] = "idle"
            /\ table' = table
            /\ lastHash(table') = lastHash(table)]_vars

\* a payload with an unknown member was refused on a ledger that has records
C15_Witness ==
    \E c \in Callers :
        /\ call[c].cmd = "collect"
        /\ ret[c] = "json: unknown field"
        /\ table # {}

\* the rows of a kind that a snapshot at T may use
RowsAt(kind, T) == {r \in table : KindOf(r.type) = kind /\ r.ts <= T}

\* the slot of a kind in the state of a report
Slot(report, kind) ==
    CASE kind = "code" -> report.State.Code
      [] kind = "config" -> report.State.Config
      [] kind = "environment" -> report.State.Environment

\* C17: for each of code, config and environment the snapshot at T is taken
\* from the row of that kind with the largest id among the rows with
\* timestamp <= T: the slot holds its parsed payload, and when its payload does
\* not parse the slot is empty and the issue "<kind> parse error: ..." is recorded
C17_LatestFillsSlot ==
    \A T \in SnapshotTimes : \A kind \in {"code", "config", "environment"} :
        LET report == ReconstructAtTime(table, T, 0)
            rows == RowsAt(kind, T)
            last == CHOOSE r \in rows : \A o \in rows : o.id <= r.id
            p == ParseJSON(last.payload, kind)
        IN  IF rows = {} THEN ~Slot(report, kind).set
            ELSE IF p.err = "" THEN Slot(report, kind) = Ptr(p.val)
            ELSE /\ ~Slot(report, kind).set
                 /\ (kind \o " parse error: " \o p.err) \in Range(report.Issues)

\* what reconstruct(T) reports besides the instant of the request and the proof
Report(t, T) ==
    LET report == ReconstructAtTime(t, T, 0)
    IN  [RecordsMatched |-> report.RecordsMatched, Coverage |-> report.Coverage,
         State |-> report.State, ReplayPlan |-> report.ReplayPlan,
         Issues |-> report.Issues, DeterminismScore |-> report.DeterminismScore]

\* C18: reconstruct(T) is a function of the rows with timestamp <= T: a ledger
\* and the ledger it becomes by committing rows with timestamp > T give the
\* same report at T
C18_PureInRecordsUpToT ==
    [][\A T \in SnapshotTimes :
         (table \subseteq table' /\ \A r \in table' \ table : r.ts > T)
            => Report(table', T) = Report(table, T)]_vars

\* the text of a reference after its last colon, or all of it
RefNumber(ref) ==
    LET v == TrimSpace(ref)
    IN  SubSeq(v, LastIndex(v, Colon) + 1, Len(v))

\* a text that reads as a decimal integer
IsInteger(s) ==
    LET body == IF s # <<>> /\ Head(s) \in {"+", "-"} THEN Tail(s) ELSE s
    IN  body # <<>> /\ \A k \in DOMAIN body : body[k] \in Digits

\* a reference of the form <namespace>:<decimal integer>
IsNamespacedRef(ref) == Colon \in Range(TrimSpace(ref)) /\ IsInteger(RefNumber(ref))

\* a reference that is one decimal integer, without namespace and colon
IsBareRef(ref) == Colon \notin Range(TrimSpace(ref)) /\ IsInteger(RefNumber(ref))

IntegerOf(ref) == ParseInt(RefNumber(ref)).val

\* ascending by the integer of the reference, ties by ascending ledger id
AscendingByOffset(records) ==
    \A i, j \in DOMAIN records :
        i < j => \/ IntegerOf(records[i].ExternalRef) < IntegerOf(records[j].ExternalRef)
                 \/ /\ IntegerOf(records[i].ExternalRef) = IntegerOf(records[j].ExternalRef)
                    /\ records[i].LedgerID < records[j].LedgerID

\* ascending by timestamp, ties by ascending ledger id
AscendingByTimestamp(records) ==
    \A i, j \in DOMAIN records :
        i < j => \/ records[i].Timestamp < records[j].Timestamp
                 \/ /\ records[i].Timestamp = records[j].Timestamp
                    /\ records[i].LedgerID < records[j].LedgerID

\* C19: the mutation records of the snapshot at T are ascending by the integer
\* of their references (ties by ledger id) when all share one namespace and
\* every reference parses as <namespace>:<decimal integer>, and ascending by
\* timestamp (ties by ledger id) otherwise
C19_MutationOrder ==
    \A T \in SnapshotTimes :
        LET records == ReconstructAtTime(table, T, 0).State.MutationRecords
        IN  IF /\ \A k \in DOMAIN records : IsNamespacedRef(records[k].ExternalRef)
               /\ \A i, j \in DOMAIN records : records[i].Namespace = records[j].Namespace
            THEN AscendingByOffset(records)
            ELSE AscendingByTimestamp(records)

\* the buckets of the replay plan at T
Buckets(T) == Range(ReconstructAtTime(table, T, 0).ReplayPlan.Namespaces)

MutationsById(T) ==
    Resolve(List(table, [Since |-> 0, Until |-> T, Limit |-> ReconstructLimit]), T,
            EmptyState).MutationRecords

\* the buckets of plan are those of the records of list, one each, in the
\* order in which their namespaces first appear in list
FirstAppearanceOrder(plan, list) ==
    LET keys == [k \in DOMAIN plan.Namespaces |-> plan.Namespaces[k].Namespace]
        first(ns) == Min({k \in DOMAIN list : BucketOf(list[k]) = ns})
    IN  /\ Range(keys) = {BucketOf(list[k]) : k \in DOMAIN list}
        /\ \A i, j \in DOMAIN keys : i < j => first(keys[i]) < first(keys[j])

\* C21 as stated: the buckets of the replay plan at T are in the order in which
\* their namespaces first appear among the mutation records in ascending id
C21_AsStated ==
    \A T \in SnapshotTimes :
        FirstAppearanceOrder(ReconstructAtTime(table, T, 0).ReplayPlan, MutationsById(T))

\* C21: the buckets of the replay plan at T are in the order in which their
\* namespaces first appear in the snapshot's list of mutation records
C21_FirstAppearance ==
    \A T \in SnapshotTimes :
        LET report == ReconstructAtTime(table, T, 0)
        IN  FirstAppearanceOrder(report.ReplayPlan, report.State.MutationRecords)

\* a plan of two buckets or more whose order is not that of the ids
C21_Witness ==
    \E T \in SnapshotTimes :
        LET report == ReconstructAtTime(table, T, 0)
        IN  /\ Len(report.ReplayPlan.Namespaces) >= 2
            /\ report.State.MutationRecords # MutationsById(T)
            /\ ~FirstAppearanceOrder(report.ReplayPlan, MutationsById(T))

\* the places of the issues of a report that are text followed by the text of
\* a field of one of its mutation records
IssuesOf(report, text, field) ==
    {k \in DOMAIN report.Issues :
        \E m \in Range(report.State.MutationRecords) :
            report.Issues[k] = text \o Flatten(m[field])}

\* two mutation records of a report with the same non-blank field
Twice(report, field) ==
    \E i, j \in DOMAIN report.State.MutationRecords :
        /\ i # j
        /\ TrimSpace(report.State.MutationRecords[i][field]) # EmptyString
        /\ report.State.MutationRecords[i][field] = report.State.MutationRecords[j][field]

\* C22: in every snapshot the issue of a duplicate mutation id is emitted iff
\* some mutation id occurs twice, the issue of a duplicate external_ref iff some
\* non-blank external_ref occurs twice, the issue of a missing external_ref iff
\* some mutation has a blank external_ref, and each of them at most once
C22_EachAnomalyKind ==
    \A T \in SnapshotTimes :
        LET report == ReconstructAtTime(table, T, 0)
            dupId == IssuesOf(report, "provenance: duplicate mutation id ", "ID")
            dupRef == IssuesOf(report, "provenance: duplicate external_ref ", "ExternalRef")
            missing == {k \in DOMAIN report.Issues :
                          report.Issues[k] = "provenance: mutation missing external_ref"}
        IN  /\ Cardinality(dupId) <= 1 /\ Cardinality(dupRef) <= 1 /\ Cardinality(missing) <= 1
            /\ dupId # {} <=> Twice(report, "ID")
            /\ dupRef # {} <=> Twice(report, "ExternalRef")
            /\ missing # {} <=> \E m \in Range(report.State.MutationRecords) :
                                   TrimSpace(m.ExternalRef) = EmptyString

\* C23: the issue of mixed namespaces is emitted exactly when the mutations of
\* the snapshot carry more than one namespace
C23_MixedNamespaces ==
    \A T \in SnapshotTimes :
        LET report == ReconstructAtTime(table, T, 0)
            namespaces == {m.Namespace : m \in Range(report.State.MutationRecords)}
                             \ {ns \in {m.Namespace : m \in Range(report.State.MutationRecords)} :
                                  TrimSpace(ns) = EmptyString}
        IN  "provenance: mixed external_ref namespaces detected" \in Range(report.Issues)
               <=> Cardinality(namespaces) > 1

\* C24: the issue of a config hash mismatch is emitted exactly when the config
\* of the snapshot has a non-blank hash that differs from the digest of its
\* snapshot text; a config whose hash config capture computed over its
\* snapshot text never gets the issue
C24_ConfigHashMismatch ==
    \A T \in SnapshotTimes :
        LET report == ReconstructAtTime(table, T, 0)
            config == report.State.Config
            issue == "provenance: config hash mismatch" \in Range(report.Issues)
        IN  /\ issue <=> /\ config.set
                         /\ TrimSpace(config.val["hash"]) # EmptyString
                         /\ config.val["hash"] # computeConfigHash(config.val["snapshot"])
            /\ (config.set /\ \E captured \in CaptureConfig(config.val["source"]) :
                                  captured.err = "" /\ captured.val = config.val)
                  => ~issue

\* the issues of a report that begin a parse error, and its provenance issues
ParseErrors(report) ==
    {k \in DOMAIN report.Issues :
        \E kind \in Kinds, err \in {"json: syntax error", "json: unknown field",
                                    "json: cannot unmarshal"} :
            report.Issues[k] = kind \o " parse error: " \o err}

\* C25: whatever the ledger holds, parse errors and provenance anomalies only
\* add issues: the report has success = true and its proof is the verdict of
\* the verifier on the rows up to T, which they do not change
C25_AnomaliesNotFatal ==
    \A T \in SnapshotTimes :
        LET report == ReconstructAtTime(table, T, 0)
        IN  /\ report.Success
            /\ report.Proof = VerifyUpTo(table, T)
            /\ \A r \in RowsAt("code", T) \cup RowsAt("config", T)
                          \cup RowsAt("environment", T) \cup RowsAt("mutation", T) :
                  ParseJSON(r.payload, KindOf(r.type)).err # "" => ParseErrors(report) # {}

\* a report with a parse error and a provenance anomaly whose proof is intact
C25_Witness ==
    \E T \in SnapshotTimes :
        LET report == ReconstructAtTime(table, T, 0)
        IN  /\ ParseErrors(report) # {}
            /\ "provenance: code commit hash too short" \in Range(report.Issues)
            /\ report.Proof.OK /\ report.Proof.Checked >= 2

\* the covered dimensions of a report
Covered(report) ==
    {d \in {"HasCode", "HasConfig", "HasEnvironment", "HasMutations"} : report.Coverage[d]}

\* the environment of the report is there and its time_source is not "system"
OtherClock(report) ==
    report.State.Environment.set /\ report.State.Environment.val["time_source"] # <<"system">>

\* a mutation of the report has a blank external_ref
BlankRef(report) ==
    \E k \in DOMAIN report.State.Mutations :
        TrimSpace(report.State.Mutations[k]["external_ref"]) = EmptyString

\* 25 for each covered dimension, less 5 and less 2 for the two penalties,
\* floored at 0 and capped at 100
ScoreRule(report) ==
    LET raw == 25 * Cardinality(Covered(report)) - (IF OtherClock(report) THEN 5 ELSE 0)
                 - (IF BlankRef(report) THEN 2 ELSE 0)
    IN  IF raw < 0 THEN 0 ELSE IF raw > 100 THEN 100 ELSE raw

\* what the score rule reads in the report of the snapshot at T
ScoreCase(T) ==
    LET report == ReconstructAtTime(table, T, 0)
    IN  [covered |-> Covered(report), clock |-> OtherClock(report),
         blank |-> BlankRef(report), score |-> report.DeterminismScore,
         rule |-> ScoreRule(report), complete |-> report.Coverage.Complete]

C27_SnapshotHash ==
    \A T \in SnapshotTimes :
        LET rows == UpTo(table, T)
        IN  ComputeHash(ResolveSnapshotAt(table, T))
              = Sha256Hex(JoinPipe([k \in DOMAIN rows |-> rows[k].hash]))

\* the texts in which an explanation may give a score
ScoreLines(score) ==
    {"Determinism Score: " \o Flatten(Decimal(score)) \o decimals \o "%" :
        decimals \in {"", ".0"}}

\* the verdict on a score
Verdict(score) ==
    IF score < 50 THEN "(Low confidence: use for forensics only, not audit proof)"
    ELSE IF score < 100
    THEN "(Partial: some dimensions missing but state may be representative)"
    ELSE "reconstruction possible: all dimensions captured"

\* text lists the dimensions that report does not cover, then all the issues
\* of report in their order, then its score, with the verdict on the score
Explains(text, report) ==
    LET issues == [k \in DOMAIN report.Issues |-> "  - " \o report.Issues[k]]
    IN  \E i, j \in DOMAIN text :
           /\ i + Len(issues) - 1 < j
           /\ SubSeq(text, i, i + Len(issues) - 1) = issues
           /\ text[j] \in ScoreLines(report.DeterminismScore)
           /\ Verdict(report.DeterminismScore) \in Range(text)
           /\ \A d \in Range(Dimensions) :
                 IF report.Coverage[d]
                 THEN MissingLine(d) \notin Range(text)
                 ELSE \E k \in 1..(i - 1) : text[k] = MissingLine(d)

\* the report at T with its explanation
ExplainCase(T) ==
    LET report == ReconstructAtTime(table, T, 0)
    IN  [report |-> report, text |-> ExplainFailure(report)]

\* C28 as stated: the explanation of every report lists the missing
\* dimensions, then every issue, then the score with the risk verdict
C28_AsStated ==
    \A cases \in {{ExplainCase(T) : T \in CoverageTimes}} :
        \A c \in cases : Explains(c.text, c.report)

\* C28: the explanation of every report that is not both successful and
\* complete lists the missing dimensions, then every issue, then the score
\* with the risk verdict; that of a successful and complete report is the one
\* line "reconstruction possible: all dimensions captured"
C28_Explanation ==
    \A cases \in {{ExplainCase(T) : T \in CoverageTimes}} :
        \A c \in cases :
            IF c.report.Success /\ c.report.Coverage.Complete
            THEN c.text = <<"reconstruction possible: all dimensions captured">>
            ELSE Explains(c.text, c.report)

\* a ledger with a snapshot that scores under 50, one that misses a dimension
\* and scores 50 or more, and a complete one that has issues
C28_Witness ==
    \E cases \in {{ExplainCase(T) : T \in CoverageTimes}} :
        \E a, b, c \in cases :
            /\ a.report.DeterminismScore < 50 /\ Len(a.report.Issues) >= 2
            /\ ~b.report.Coverage.Complete /\ b.report.DeterminismScore >= 50
            /\ Explains(b.text, b.report)
            /\ c.report.Coverage.Complete /\ c.report.Issues # <<>>

\* the bounds and the limits asked of list
ListBounds == -1..3

ListLimits == {-1, 0, 1, 2}

\* the rows in ascending id whose timestamp lies in [since, until], a bound in
\* open meaning no bound on its side, cut after the first limit rows, 100 when
\* limit is zero or negative
Listed(since, until, limit, open) ==
    LET rows == SelectSeq(OrderById(table),
                          LAMBDA r : /\ since \in open \/ r.ts >= since
                                     /\ until \in open \/ r.ts <= until)
        n == IF limit <= 0 THEN 100 ELSE limit
    IN  SubSeq(rows, 1, Min({n, Len(rows)}))

\* C29 as stated: list returns the rows with timestamp in [since, until], a
\* zero bound meaning unbounded, in ascending id, cut to the limit
C29_AsStated ==
    \A since, until \in ListBounds : \A limit \in ListLimits :
        List(table, [Since |-> since, Until |-> until, Limit |-> limit])
          = Listed(since, until, limit, {0})

\* C29: list returns the rows with timestamp in [since, until], a zero or
\* negative bound meaning unbounded, in ascending id, cut to the limit
C29_TimeBoundedList ==
    \A since, until \in ListBounds : \A limit \in ListLimits :
        List(table, [Since |-> since, Until |-> until, Limit |-> limit])
          = Listed(since, until, limit, {b \in ListBounds : b <= 0})

\* a ledger of which a query with both bounds leaves out a row on each side
\* and keeps the rows on the bounds, and of which a limit cuts the answer
C29_Witness ==
    /\ \E r \in table : r.ts = 1
    /\ \E r \in table : r.ts = 3
    /\ Len(List(table, [Since |-> 2, Until |-> 2, Limit |-> 0])) = 1
    /\ Len(List(table, [Since |-> 0, Until |-> 0, Limit |-> 2])) = 2
    /\ Len(List(table, [Since |-> 0, Until |-> -1, Limit |-> -1])) = 3

\* the content whose digest is sum
ContentOf(sum) == CHOOSE content \in BlobContents : Sha256Hex(content) = sum

\* C30: concurrent puts of the same content are safe: every Store call that has returned
\* gave a size equal to the length of its content, and from the return of any put of a
\* digest on, the file root/<digest> holds exactly the content, also while another put of
\* that digest is in progress
C30_ConcurrentPutsSafe ==
    \A c \in Callers : \A i \in 1..Len(put[c].out) :
        LET artifact == put[c].out[i]
            content == ContentOf(artifact.Checksum)
        IN  /\ artifact.Size = Len(content)
            /\ artifact.Path \in DOMAIN file
            /\ file[artifact.Path] = content

\* the returned Store calls: the content put and the artifact returned
Returned == {[content |-> put[c].done[i], artifact |-> put[c].out[i]] :
                <<c, i>> \in {x \in Callers \X (1..MaxPuts) : x[2] <= Len(put[x[1]].out)}}

\* C31: blob dedup: any two puts of the same content return the same digest and the same
\* stored path, and once the puts are over exactly one file of the root holds that content
C31_BlobDedup ==
    /\ \A r1 \in Returned : \A r2 \in Returned :
            r1.content = r2.content =>
                /\ r1.artifact.Checksum = r2.artifact.Checksum
                /\ r1.artifact.Path = r2.artifact.Path
    /\ (\A c \in Callers : put[c].pc = "idle") =>
            \A r \in Returned :
                Cardinality({path \in DOMAIN file : file[path] = r.content}) = 1

\* both callers have put the same content, one of them twice, and no put is in progress
C31_Witness ==
    /\ \A c \in Callers : put[c].pc = "idle"
    /\ \E b \in BlobContents :
            /\ put["c1"].done = <<b, b>>
            /\ b \in {put["c2"].done[i] : i \in 1..Len(put["c2"].done)}
    /\ Cardinality(DOMAIN file) = 2

\* the required fields of each payload variant
RequiredFields(kind) ==
    CASE kind = "code" -> {"repo", "commit"}
      [] kind = "config" -> {"source", "version", "hash"}
      [] kind = "environment" -> {"os", "runtime", "arch", "time_source"}
      [] kind = "mutation" -> {"type", "id", "source"}

\* C32: validate rejects a typed payload whenever a required field of its variant is
\* blank: repo or commit for code; source, version or hash for config; os, runtime, arch
\* or time_source for environment; type, id or source for mutation
C32_BlankRequiredRejected ==
    \A c \in Callers :
        call[c].cmd = "validate" =>
            LET v == ParseJSON(call[c].raw, call[c].kind).val
            IN  (\E name \in RequiredFields(call[c].kind) : TrimSpace(v[name]) = EmptyString)
                    => ret[c] # "ok"

\* the ledger holds an event of the type for the user
Recorded(eventType, userID) ==
    \E r \in table :
        /\ r.type = <<"event">>
        /\ Len(r.payload) >= 3
        /\ SubSeq(r.payload, 1, 3) = <<eventType, Colon, userID>>

\* C33: every state change of the microservice is recorded: once the requests are over,
\* also those whose append failed, every user and every order of the in-memory state and
\* every order status has a committed ledger event
C33_EveryChangeRecorded ==
    (\A c \in Callers : Ready(c)) =>
        /\ \A id \in app.users : Recorded("user.signup", id)
        /\ \A id \in DOMAIN app.orders :
              LET order == app.orders[id]
              IN  /\ Recorded("order.created", order.UserID)
                  /\ order.Status = "shipped" => Recorded("order.shipped", order.UserID)
                  /\ order.Status = "paid" => Recorded("payment.processed", order.UserID)

\* the errors with which LoadManifest refuses a manifest file that it could read
LoadErrors ==
    {"json: syntax error", "json: cannot unmarshal", "version is required", "name is required",
     "at least one collector is required", "collector: invalid kind",
     "collector: source is required"}

\* a collector is valid: its kind exists and it has a source unless it is an environment
ValidCollector(col) ==
    /\ col.Kind \in {<<k>> : k \in Kinds}
    /\ col.Kind = <<"environment">> \/ TrimSpace(col.Source) # EmptyString

\* C34: an environment collector is valid without a source while code, config and
\* mutation collectors need a non-blank one: manifest run loads a manifest file that has
\* a version, a name and at least one collector exactly when all its collectors are
\* valid in this sense, so it loads the file that manifest create wrote
C34_EnvironmentWithoutSource ==
    \A c \in Callers :
        call[c].cmd = "manifest load" /\ call[c].raw \in DOMAIN file =>
            \A m \in {UnmarshalManifest(call[c].data)} :
                /\ m.err = ""
                /\ TrimSpace(m.val.Version) # EmptyString
                /\ TrimSpace(m.val.Name) # EmptyString
                /\ Len(m.val.Collectors) > 0
                => (ret[c] \notin LoadErrors
                        <=> \A k \in DOMAIN m.val.Collectors : ValidCollector(m.val.Collectors[k]))

\* the limit, when given, is the decimal text of an integer of 1..1000
ValidLimit(param) ==
    param = EmptyString \/ (IsInteger(param) /\ ParseInt(param).val \in 1..MaxLimit)

\* the offset, when given, is the decimal text of a non-negative integer
ValidOffset(param) == param = EmptyString \/ (IsInteger(param) /\ ParseInt(param).val >= 0)

\* C35: GET /api/v1/records answers 400 whenever the limit is not an integer of 1..1000
\* or the offset is not a non-negative integer, and 200 for valid parameters
C35_BadParamsRefused ==
    \A c \in Callers :
        call[c].cmd = "GET /api/v1/records" =>
            IF ValidLimit(call[c].limit) /\ ValidOffset(call[c].offset)
            THEN ret[c] = "200"
            ELSE ret[c] = "400"

\* C36: for every target time T the report's records_matched is the number of committed
\* records with timestamp <= T
C36_RecordsMatched ==
    \A T \in SnapshotTimes :
        ReconstructAtTime(table, T, 0).RecordsMatched = Cardinality({r \in table : r.ts <= T})

\* the mutation record carries the id and the external_ref of the mutation
Carries(record, mutation) ==
    record.ID = mutation["id"] /\ record.ExternalRef = mutation["external_ref"]

\* the record with the i-th smallest ledger id
ByLedgerID(records, i) ==
    CHOOSE r \in Range(records) :
        Cardinality({o \in Range(records) : o.LedgerID <= r.LedgerID}) = i

\* C37 as stated: state.mutations and state.mutation_records are in the same order, the
\* i-th mutation record carrying the id and external_ref of the i-th mutation
C37_AsStated ==
    \A T \in SnapshotTimes :
        \A st \in {ReconstructAtTime(table, T, 0).State} :
            /\ Len(st.MutationRecords) = Len(st.Mutations)
            /\ \A i \in DOMAIN st.Mutations : Carries(st.MutationRecords[i], st.Mutations[i])

\* C37: state.mutations and state.mutation_records describe the same mutations,
\* mutations in ledger order and mutation_records in replay order: there are as many
\* records as mutations, no record twice, and the record with the i-th smallest ledger id
\* carries the id and external_ref of the i-th mutation
C37_SameMutations ==
    \A T \in SnapshotTimes :
        \A st \in {ReconstructAtTime(table, T, 0).State} :
            /\ Len(st.MutationRecords) = Len(st.Mutations)
            /\ Cardinality({r.LedgerID : r \in Range(st.MutationRecords)}) = Len(st.Mutations)
            /\ \A i \in DOMAIN st.Mutations :
                  Carries(ByLedgerID(st.MutationRecords, i), st.Mutations[i])

\* a report with three mutations whose records were put into another order
C37_Witness ==
    \E T \in SnapshotTimes :
        \E st \in {ReconstructAtTime(table, T, 0).State} :
            /\ Len(st.Mutations) = 3
            /\ \E i \in DOMAIN st.Mutations :
                  st.MutationRecords[i].LedgerID # ByLedgerID(st.MutationRecords, i).LedgerID
            /\ \E i \in DOMAIN st.Mutations : ~Carries(st.MutationRecords[i], st.Mutations[i])

\* C38: Snapshot.Validate reports Valid with the reason "Full reconstruction possible"
\* only when no component is missing: Valid implies that MissingComponents is empty
C38_ValidMeansNothingMissing ==
    \A T \in SnapshotTimes :
        \A state \in {SnapshotValidate(ResolveSnapshotAt(table, T))} :
            /\ state.Valid <=> state.Reason = "Full reconstruction possible"
            /\ state.Valid => state.MissingComponents = <<>>

\* the lines the stress test printed
Printed(line) == call[Cli].cmd = "stress" /\ line \in Range(call[Cli].out)

\* C39: the summary of the stress test prints "Chain Integrity: VERIFIED" and a success
\* rate of 100% only if the final VerifyChain returned ok = true without an error and no
\* batch ended in failure after its retries (failedEvents = 0)
C39_SummaryOnlyIfVerified ==
    (Printed("Chain Integrity: VERIFIED") /\ Printed("Success Rate: 100.00%"))
        => /\ call[Cli].verify.OK
           /\ ~call[Cli].verify.err
           /\ call[Cli].failedEvents = 0

\* C40: for every key, rate and capacity and any sequence of Allow calls, the token
\* count of the key's bucket stays within [0, capacity], and while the clock stands
\* still at most capacity calls for the key are allowed
C40_TokensWithinCapacity ==
    app.limiter.set =>
        \A key \in Keys :
            /\ key \in DOMAIN app.limiter.buckets =>
                  /\ app.limiter.buckets[key].tokens >= 0
                  /\ app.limiter.buckets[key].tokens <= Halves * app.limiter.capacity
            /\ app.limiter.allowed[key] <= app.limiter.capacity

====
